---- MODULE Spec2Model ----
(***************************************************************************)
(* State-machine model of the RAG user-story generator backend:            *)
(*   - security module and auth router (tokens, register, login, logout)   *)
(*   - documents router and user-stories router (ownership, versions)      *)
(*   - the six-stage user-story generation agent                           *)
(*   - LLM, RAG and knowledge graph services, API keys, health, shutdown   *)
(* Each subsystem has its own specification over the shared variables.     *)
(***************************************************************************)
EXTENDS Integers, Sequences, FiniteSets, TLC

VARIABLES
    now,            \* wall clock, minutes (datetime.utcnow())
    users,          \* table "users": sequence of rows, id = index
    sessions,       \* table "user_sessions": sequence of rows
    blacklist,      \* TokenBlacklist._blacklisted_tokens
    issued,         \* tokens handed out to clients
    authResp,       \* last request served by the auth surface and its response
    held,           \* a token under test with the payload it was made from
    tokenRes,       \* last verify_token call on the held token and its result
    docs,           \* table "documents": sequence of rows, id = index
    files,          \* paths present in settings.UPLOAD_DIR
    chunks,         \* table "document_chunks"
    annotations,    \* table "document_annotations"
    stories,        \* table "user_stories": sequence of rows, id = index
    versions,       \* table "user_story_versions"
    comments,       \* table "user_story_comments"
    tasks,          \* background tasks added with add_task, in scheduling order
    resp,           \* response of the two routers that has not gone out yet
    inflight,       \* per worker process: the update request it has begun
    pc,             \* where one call of UserStoryAgent.generate_user_stories stands
    wf,             \* the UserStoryState the workflow passes from stage to stage
    ran,            \* the stages the workflow has executed, in order
    result,         \* what the call handed back to its caller
    call,           \* the service function called last, with its arguments
    returned,       \* what that call returned
    llm_service,    \* the LLMService instance: providers, calls under way, results
    graph,          \* the Neo4j store: nodes and relationships
    connections,    \* the application's phase and its three store connections
    api_keys        \* table "api_keys": sequence of rows

\* rows, files and tasks the document and user-story routers work on
store == <<docs, files, chunks, annotations, stories, versions, comments, tasks>>

\* what each subsystem leaves alone
agentVars == <<pc, wf, ran, result>>
serviceVars == <<call, returned>>
backendVars == <<llm_service, graph, connections, api_keys>>
notAuth == <<held, tokenRes, store, resp, agentVars, serviceVars, inflight, backendVars>>
notToken == <<users, sessions, blacklist, issued, authResp, store, resp, agentVars,
              serviceVars, inflight, backendVars>>
notApi == <<now, users, sessions, blacklist, issued, authResp, held, tokenRes, agentVars,
            serviceVars, inflight, backendVars>>
notAgent == <<now, users, sessions, blacklist, issued, authResp, held, tokenRes,
              store, resp, serviceVars, inflight, backendVars>>
notService == <<now, users, sessions, blacklist, issued, authResp, held, tokenRes,
                store, resp, agentVars, inflight, backendVars>>

\* everything but the backend services
coreVars == <<now, users, sessions, blacklist, issued, authResp, held, tokenRes,
              store, resp, agentVars, serviceVars, inflight>>

vars == <<now, users, sessions, blacklist, issued, authResp, held, tokenRes,
          store, resp, agentVars, serviceVars, inflight, backendVars>>

----------------------------------------------------------------------------
(* Bounds *)
MaxUsers == 2
MaxTime == 45
TickMinutes == 15
MaxWorkers == 2
MaxCallers == 2
MaxGenerations == 3
MaxExtracted == 3
MaxRelationships == 2
MaxApiKeys == 2
MaxNodes == 2
MaxEdges == 1

(* Program constants *)
ACCESS_TOKEN_EXPIRE_MINUTES == 30
REFRESH_TOKEN_EXPIRE_MINUTES == 10080
SessionTokenLen == 32

Min(a, b) == IF a < b THEN a ELSE b

\* Python slicing s[:n]
Take(s, n) == SubSeq(s, 1, Min(n, Len(s)))

None == "None"
NoPayload == [none |-> TRUE]

----------------------------------------------------------------------------
(* security module *)

SECRET_KEY == "server-secret"

\* base64url of {"alg":"HS256","typ":"JWT"}: the first segment of every token
JWTHeader ==
    << "e","y","J","h","b","G","c","i","O","i","J","I","U","z","I","1","N","i",
       "I","s","I","n","R","5","c","C","I","6","I","k","p","X","V","C","J","9" >>

\* HMAC over the signing input, determined by key and claims
Sign(key, claims) == [key |-> key, over |-> claims]

\* jwt.encode: header "." payload "." signature
jwt_encode(claims, key) ==
    JWTHeader \o <<".">> \o <<claims>> \o <<".">> \o <<Sign(key, claims)>>

TokenClaims(token) == token[Len(JWTHeader) + 2]
TokenSig(token) == token[Len(JWTHeader) + 4]

Get(claims, k) == IF k \in DOMAIN claims THEN claims[k] ELSE None

\* the exception classes jwt.decode raises, all of them JWTError
JWTErrors == {"JWTError", "ExpiredSignatureError", "JWTClaimsError"}

\* jwt.decode: signature check, then expiry check (exp < now, no leeway);
\* raised = "" when it returns the claims
jwt_decode(token, key, t) ==
    IF TokenSig(token) # Sign(key, TokenClaims(token))
    THEN [raised |-> "JWTError", claims |-> NoPayload]
    ELSE IF "exp" \in DOMAIN TokenClaims(token) /\ TokenClaims(token)["exp"] < t
    THEN [raised |-> "ExpiredSignatureError", claims |-> NoPayload]
    ELSE [raised |-> "", claims |-> TokenClaims(token)]

create_access_token(data, t) ==
    jwt_encode([k \in (DOMAIN data) \cup {"exp", "type"} |->
                   IF k = "exp" THEN t + ACCESS_TOKEN_EXPIRE_MINUTES
                   ELSE IF k = "type" THEN "access" ELSE data[k]],
               SECRET_KEY)

create_refresh_token(data, t) ==
    jwt_encode([k \in (DOMAIN data) \cup {"exp", "type"} |->
                   IF k = "exp" THEN t + REFRESH_TOKEN_EXPIRE_MINUTES
                   ELSE IF k = "type" THEN "refresh" ELSE data[k]],
               SECRET_KEY)

\* an exception that leaves verify_token
Raised == [raised |-> TRUE]

verify_token_no_type_check(token, token_type, t) ==
    LET r == jwt_decode(token, SECRET_KEY, t) IN
    IF r.raised \in JWTErrors THEN NoPayload
    ELSE IF r.raised # "" THEN Raised
    ELSE IF Get(r.claims, "sub") = None THEN NoPayload
    ELSE r.claims

\* verify_token: the payload, or NoPayload for None; except JWTError -> None
verify_token(token, token_type, t) ==
    LET r == jwt_decode(token, SECRET_KEY, t) IN
    IF r.raised \in JWTErrors THEN NoPayload
    ELSE IF r.raised # "" THEN Raised
    ELSE IF Get(r.claims, "type") # token_type THEN NoPayload
    ELSE IF Get(r.claims, "sub") = None THEN NoPayload
    ELSE r.claims

\* bcrypt: "$2b$" followed by the digest of the password
get_password_hash(password) == <<"$2b$">> \o password

verify_password(plain, hashed) == hashed = get_password_hash(plain)

\* db.query(User).filter(User.username == username).first(): row id or 0
UserByName(username) ==
    IF \E i \in 1..Len(users) : users[i].username = username
    THEN CHOOSE i \in 1..Len(users) :
            /\ users[i].username = username
            /\ \A j \in 1..(i-1) : users[j].username # username
    ELSE 0

UserByEmail(email) ==
    IF \E i \in 1..Len(users) : users[i].email = email
    THEN CHOOSE i \in 1..Len(users) :
            /\ users[i].email = email
            /\ \A j \in 1..(i-1) : users[j].email # email
    ELSE 0

\* authenticate_user: row id, or 0 for False
authenticate_user(username, password) ==
    LET u == UserByName(username) IN
    IF u = 0 THEN 0
    ELSE IF ~verify_password(password, users[u].hashed_password) THEN 0
    ELSE u

\* get_current_user: [status, user]; 401 when the token does not verify or
\* names no user
get_current_user(token) ==
    LET payload == verify_token(token, "access", now) IN
    IF payload = NoPayload THEN [status |-> 401, user |-> 0]
    ELSE IF UserByName(payload["sub"]) = 0 THEN [status |-> 401, user |-> 0]
    ELSE [status |-> 200, user |-> UserByName(payload["sub"])]

\* get_current_active_user = Depends(get_current_user) + is_active check
get_current_active_user(token) ==
    LET r == get_current_user(token) IN
    IF r.status # 200 THEN r
    ELSE IF ~users[r.user].is_active THEN [status |-> 400, user |-> 0]
    ELSE r

NoHeld == [kind |-> "none", token |-> <<>>, payload |-> NoPayload,
           minted |-> 0, forged |-> FALSE]
NoResp == [op |-> "none", caller |-> 0, parent |-> 0, target |-> 0, status |-> 0,
           body |-> {}, arg |-> <<>>, wrote |-> FALSE, changed |-> FALSE]
NoTokenRes == [type |-> "none", at |-> 0, result |-> NoPayload]

----------------------------------------------------------------------------
(* auth router *)

Usernames == {"alice", "bob"}
Emails == {"a@x.com", "b@x.com"}
Passwords == {<<"p","w","1">>, <<"p","w","2">>}

NoToken == <<>>

AuthResponse(op, status, detail, name, secret, token) ==
    [op |-> op, status |-> status, detail |-> detail,
     name |-> name, secret |-> secret, token |-> token,
     at |-> now, sessions_before |-> Len(sessions), users_before |-> Len(users)]

\* existing_user = db.query(User).filter(User.username == ...).first()
UsernameTaken(username) == UserByName(username) # 0

EmailCheckSkipped(email) == FALSE

\* existing_email = db.query(User).filter(User.email == ...).first()
EmailTaken(email) == UserByEmail(email) # 0

\* User.username and User.email are declared unique
UserInsertAllowed(row) ==
    \A i \in 1..Len(users) :
        users[i].username # row.username /\ users[i].email # row.email

NewUser(username, email, password) ==
    [username |-> username, email |-> email,
     hashed_password |-> get_password_hash(password),
     is_active |-> TRUE, role |-> "user", last_login |-> -1]

\* POST /auth/register
register_user(username, email, password) ==
    /\ \/ /\ UsernameTaken(username)
          /\ authResp' = AuthResponse("register", 400, "Username already registered",
                                      username, email, password)
          /\ users' = users
       \/ /\ ~UsernameTaken(username)
          /\ EmailTaken(email)
          /\ authResp' = AuthResponse("register", 400, "Email already registered",
                                      username, email, password)
          /\ users' = users
       \/ /\ ~UsernameTaken(username)
          /\ ~EmailTaken(email)
          /\ IF UserInsertAllowed(NewUser(username, email, password))
             THEN /\ Len(users) < MaxUsers
                  /\ users' = Append(users, NewUser(username, email, password))
                  /\ authResp' = AuthResponse("register", 201, "created",
                                              username, email, password)
             ELSE /\ users' = users
                  /\ authResp' = AuthResponse("register", 500,
                                              "Internal server error occurred",
                                              username, email, password)
    /\ UNCHANGED <<now, sessions, blacklist, issued, notAuth>>

NewSession(user_id, access_token) ==
    [user_id |-> user_id,
     session_token |-> Take(access_token, SessionTokenLen),
     is_active |-> TRUE,
     expires_at |-> now + ACCESS_TOKEN_EXPIRE_MINUTES]

\* UserSession.session_token is declared unique: the INSERT is refused when a
\* row already holds the value
SessionInsertAllowed(row) ==
    \A i \in 1..Len(sessions) : sessions[i].session_token # row.session_token

\* POST /auth/login
login(username, password) ==
    LET u == authenticate_user(username, password) IN
    /\ \/ /\ u = 0
          /\ authResp' = AuthResponse("login", 401, "Incorrect username or password",
                                      username, password, NoToken)
          /\ UNCHANGED <<users, sessions, issued>>
       \/ /\ u # 0
          /\ ~users[u].is_active
          /\ authResp' = AuthResponse("login", 400, "Inactive user account",
                                      username, password, NoToken)
          /\ UNCHANGED <<users, sessions, issued>>
       \/ /\ u # 0
          /\ users[u].is_active
          /\ LET access_token ==
                     create_access_token([sub |-> users[u].username, user_id |-> u,
                                          role |-> users[u].role], now)
                 refresh_token ==
                     create_refresh_token([sub |-> users[u].username, user_id |-> u], now)
                 session == NewSession(u, access_token)
             IN
             \* first commit: last_login
             /\ users' = [users EXCEPT ![u].last_login = now]
             \* second commit: the session row; an IntegrityError is unhandled
             /\ IF SessionInsertAllowed(session)
                THEN /\ sessions' = Append(sessions, session)
                     /\ issued' = issued \cup {access_token, refresh_token}
                     /\ authResp' = AuthResponse("login", 200, "bearer",
                                                 username, password, access_token)
                ELSE /\ UNCHANGED <<sessions, issued>>
                     /\ authResp' = AuthResponse("login", 500,
                                                 "Internal server error occurred",
                                                 username, password, NoToken)
    /\ UNCHANGED <<now, blacklist, notAuth>>

\* logout_user -> TokenBlacklist.blacklist_token
logout_user(token) == blacklist \cup {token}

deactivate_no_session(user_id) == sessions

\* query(UserSession).filter(user_id == ..., is_active == True).update(
\* {"is_active": False})
deactivate_sessions(user_id) ==
    [i \in 1..Len(sessions) |->
        IF sessions[i].user_id = user_id /\ sessions[i].is_active
        THEN [sessions[i] EXCEPT !.is_active = FALSE]
        ELSE sessions[i]]

\* POST /auth/logout (Depends(security), Depends(get_current_active_user))
logout(token) ==
    LET cur == get_current_active_user(token) IN
    /\ IF cur.status # 200
       THEN /\ authResp' = AuthResponse("logout", cur.status, "rejected", "", NoToken, token)
            /\ UNCHANGED <<blacklist, sessions>>
       ELSE /\ blacklist' = logout_user(token)
            /\ sessions' = deactivate_sessions(cur.user)
            /\ authResp' = AuthResponse("logout", 200, "Successfully logged out",
                                        "", NoToken, token)
    /\ UNCHANGED <<now, users, issued, notAuth>>

reset_response_reveals(user) == [status |-> 200, message |-> "Reset link sent"]

\* the return statement after the TODO, reached when the email has an account
reset_response_for_account(user) ==
    [status |-> 200, message |-> "If the email exists, a reset link has been sent"]

\* POST /auth/password-reset-request: no credentials, no write
request_password_reset(email) ==
    LET user == UserByEmail(email)
        r == IF user = 0
             THEN [status |-> 200,
                   message |-> "If the email exists, a reset link has been sent"]
             ELSE reset_response_for_account(user)
    IN
    /\ authResp' = AuthResponse("password-reset-request", r.status, r.message,
                                "", email, NoToken)
    /\ UNCHANGED <<now, users, sessions, blacklist, issued, notAuth>>

\* GET /auth/me, and every other endpoint whose only credential check is
\* Depends(get_current_active_user)
get_current_user_profile(token) ==
    LET cur == get_current_active_user(token) IN
    /\ authResp' = AuthResponse("me", cur.status,
                                IF cur.status = 200 THEN users[cur.user].username
                                ELSE "rejected",
                                "", NoToken, token)
    /\ UNCHANGED <<now, users, sessions, blacklist, issued, notAuth>>

\* POST /auth/refresh: no bearer dependency, the refresh token is in the body;
\* the answer carries a new access token and the same refresh token
refresh_token(token) ==
    LET payload == verify_token(token, "refresh", now)
        u == IF payload = NoPayload THEN 0 ELSE UserByName(payload["sub"])
    IN
    /\ IF payload = NoPayload
       THEN /\ authResp' = AuthResponse("refresh", 401, "Invalid refresh token",
                                        "", NoToken, token)
            /\ UNCHANGED issued
       ELSE IF u = 0 \/ ~users[u].is_active
       THEN /\ authResp' = AuthResponse("refresh", 401, "User not found or inactive",
                                        "", NoToken, token)
            /\ UNCHANGED issued
       ELSE LET access_token ==
                    create_access_token([sub |-> users[u].username, user_id |-> u,
                                         role |-> users[u].role], now)
            IN
            /\ issued' = issued \cup {access_token}
            /\ authResp' = AuthResponse("refresh", 200, "bearer",
                                        users[u].username, access_token, token)
    /\ UNCHANGED <<now, users, sessions, blacklist, notAuth>>

\* passage of time between requests
Tick ==
    /\ now + TickMinutes <= MaxTime
    /\ now' = now + TickMinutes
    /\ UNCHANGED <<users, sessions, blacklist, issued, authResp, notAuth>>

\* no call of the agent under way
AgentIdle == pc = "idle" /\ wf = NoPayload /\ ran = <<>> /\ result = NoPayload

\* no service function has been called yet
NoCall == [fn |-> "none"]
ServiceIdle == call = NoCall /\ returned = NoCall

\* LLMService.__init__ / _initialize_providers: one cached instance per
\* configured provider, each built with settings.DEFAULT_MODEL and with the
\* usage counters of BaseLLMProvider.__init__ (costs in millionths of a dollar)
DEFAULT_LLM_PROVIDER == "openai"
DEFAULT_MODEL == "gpt-4"
ProviderNames == {"openai", "ollama"}
Callers == 1..MaxCallers
NoUsage == [total_tokens |-> 0, prompt_tokens |-> 0, completion_tokens |-> 0,
            total_cost |-> 0, requests_count |-> 0]
BaseLLMProvider(provider_name, model_name) ==
    [provider |-> provider_name, model_name |-> model_name, usage_stats |-> NoUsage]
NoGeneration == [busy |-> FALSE]
LLMServiceInit ==
    [providers |-> [p \in ProviderNames |-> BaseLLMProvider(p, DEFAULT_MODEL)],
     pending |-> [c \in Callers |-> NoGeneration],
     results |-> <<>>,
     raised |-> 0]

\* the backend services as constructed at import time
GraphEmpty == [nodes |-> {}, edges |-> {}]
\* the application after startup: serving, with the three connections open
Serving == [phase |-> "serving", redis_client |-> "open", neo4j_connection |-> "open",
            engine |-> "open", attempted |-> <<>>, printed |-> "none"]
BackendIdle ==
    /\ llm_service = LLMServiceInit
    /\ graph = GraphEmpty
    /\ connections = Serving
    /\ api_keys = <<>>

\* worker processes that serve requests side by side
Workers == 1..MaxWorkers
NoRequest == [busy |-> FALSE, user_id |-> 0, story_id |-> 0, update_data |-> <<>>,
              version |-> <<>>]

\* both routers before any request: empty tables, empty upload directory
StoreEmpty ==
    /\ docs = <<>> /\ files = {} /\ chunks = <<>> /\ annotations = <<>>
    /\ stories = <<>> /\ versions = <<>> /\ comments = <<>> /\ tasks = <<>>
    /\ resp = NoResp
    /\ inflight = [w \in Workers |-> NoRequest]

InitAuth ==
    /\ now = 0
    /\ users = << [username |-> "carol", email |-> "c@x.com",
                   hashed_password |-> get_password_hash(<<"p","w","1">>),
                   is_active |-> FALSE, role |-> "user", last_login |-> -1] >>
    /\ sessions = <<>>
    /\ blacklist = {}
    /\ issued = {}
    /\ authResp = [op |-> "none", status |-> 0, detail |-> "", name |-> "",
                   secret |-> "", token |-> NoToken,
                   at |-> 0, sessions_before |-> 0, users_before |-> 1]
    /\ held = NoHeld
    /\ tokenRes = NoTokenRes
    /\ StoreEmpty
    /\ AgentIdle
    /\ ServiceIdle
    /\ BackendIdle

NextAuth ==
    \/ \E u \in Usernames, e \in Emails, p \in Passwords : register_user(u, e, p)
    \/ \E u \in Usernames \cup {"carol"}, p \in Passwords : login(u, p)
    \/ \E t \in issued : logout(t)
    \/ \E t \in issued : get_current_user_profile(t)
    \/ \E e \in Emails : request_password_reset(e)
    \/ Tick

SpecAuth == InitAuth /\ [][NextAuth]_vars

\* the auth surface with the refresh endpoint
NextRefresh ==
    \/ NextAuth
    \/ \E t \in issued : refresh_token(t)

SpecRefresh == InitAuth /\ [][NextRefresh]_vars

(* C1: once POST /auth/logout has succeeded for an access token, every later
   request presenting that token to an endpoint behind bearer authentication
   is answered 401. *)
C1_LoggedOutTokenRejected ==
    (authResp.op = "me" /\ authResp.token \in blacklist) => authResp.status = 401

\* the step is a POST /auth/logout that is answered 200
LogoutReturns ==
    /\ now' = now
    /\ authResp'.op = "logout"
    /\ authResp'.status = 200

(* C17: after a POST /auth/logout by user U has returned, no UserSession row
   of U is active, and the rows of every other user are what they were. *)
C17_LogoutDeactivatesOwnSessions ==
    [][ LogoutReturns =>
          LET U == get_current_active_user(authResp'.token).user IN
          /\ Len(sessions') = Len(sessions)
          /\ \A i \in 1..Len(sessions) :
                IF sessions[i].user_id = U
                THEN ~sessions'[i].is_active
                ELSE sessions'[i] = sessions[i] ]_vars

\* a user who had an active session has logged out
C17_Witness ==
    /\ authResp.op = "logout"
    /\ authResp.status = 200
    /\ \E i \in 1..Len(sessions) :
          /\ sessions[i].user_id = get_current_active_user(authResp.token).user
          /\ ~sessions[i].is_active

\* the step is a POST /auth/password-reset-request
ResetRequested == now' = now /\ authResp'.op = "password-reset-request"

\* when a token was issued: create_*_token stamps exp = now + lifetime
IssuedAt(token) ==
    TokenClaims(token)["exp"]
        - (IF TokenClaims(token)["type"] = "refresh" THEN REFRESH_TOKEN_EXPIRE_MINUTES
           ELSE ACCESS_TOKEN_EXPIRE_MINUTES)

\* the user of the token has logged out (with an access token that is now on
\* the blacklist) at or after the time the token was issued
LoggedOutSince(token) ==
    \E a \in blacklist :
        /\ TokenClaims(a)["sub"] = TokenClaims(token)["sub"]
        /\ IssuedAt(token) <= IssuedAt(a)

(* C28: after a user has logged out, a refresh token that was issued to that
   user before the logout is no longer accepted by POST /auth/refresh: the
   request is answered 401 and hands out no access token. *)
C28_RefreshRejectedAfterLogout ==
    ( /\ authResp.op = "refresh"
      /\ TokenClaims(authResp.token)["type"] = "refresh"
      /\ LoggedOutSince(authResp.token) )
    => authResp.status = 401

(* C19: POST /auth/password-reset-request answers with the same status and
   message and leaves the stored state as it was, whether or not the
   submitted email belongs to an account. *)
C19_ResetRequestRevealsNothing ==
    [][ ResetRequested =>
          /\ authResp'.status = 200
          /\ authResp'.detail = "If the email exists, a reset link has been sent"
          /\ UNCHANGED <<users, sessions, blacklist, issued>> ]_vars

\* the request has been answered for an email that has an account
C19_Witness ==
    /\ authResp.op = "password-reset-request"
    /\ UserByEmail(authResp.secret) # 0

(* C6: a login with valid credentials of an active account answers 200 and
   adds exactly one active UserSession row for that user, keyed by the first
   32 characters of the issued access token and expiring at login time plus
   the access-token lifetime; a rejected login adds no row. *)
C6_LoginAddsOneSession ==
    authResp.op = "login" =>
        LET valid == \E i \in 1..Len(users) :
                        /\ users[i].username = authResp.name
                        /\ users[i].hashed_password = <<"$2b$">> \o authResp.secret
                        /\ users[i].is_active
            n == Len(sessions)
        IN  IF valid
            THEN /\ authResp.status = 200
                 /\ n = authResp.sessions_before + 1
                 /\ users[sessions[n].user_id].username = authResp.name
                 /\ sessions[n].is_active
                 /\ sessions[n].session_token = SubSeq(authResp.token, 1, 32)
                 /\ sessions[n].expires_at = authResp.at + 30
            ELSE /\ authResp.status \in {400, 401}
                 /\ n = authResp.sessions_before

(* C7: registering an existing username answers 400 "Username already
   registered"; otherwise registering an existing email answers 400 "Email
   already registered"; neither adds a row. A new pair adds one row whose
   stored hash differs from the plaintext password. No two rows of the users
   table share a username or an email. *)
C7_RegistrationUnique ==
    /\ \A i, j \in 1..Len(users) :
          i # j => /\ users[i].username # users[j].username
                   /\ users[i].email # users[j].email
    /\ authResp.op = "register" =>
          LET before == 1..authResp.users_before
              dupName == \E i \in before : users[i].username = authResp.name
              dupMail == \E i \in before : users[i].email = authResp.secret
              n == Len(users)
          IN  /\ dupName => /\ authResp.status = 400
                            /\ authResp.detail = "Username already registered"
                            /\ n = authResp.users_before
              /\ (~dupName /\ dupMail) =>
                            /\ authResp.status = 400
                            /\ authResp.detail = "Email already registered"
                            /\ n = authResp.users_before
              /\ (~dupName /\ ~dupMail) =>
                            /\ authResp.status = 201
                            /\ n = authResp.users_before + 1
                            /\ users[n].username = authResp.name
                            /\ users[n].email = authResp.secret
                            /\ users[n].hashed_password # authResp.token

C7_Witness ==
    /\ authResp.op = "register"
    /\ authResp.status = 400
    /\ authResp.detail = "Email already registered"
    /\ Len(users) >= 2

----------------------------------------------------------------------------
(* token round trips: create_access_token / create_refresh_token /          *)
(* verify_token on payloads drawn from a bounded set                        *)

AccessPayloads ==
    [sub : {"alice", ""}, user_id : {1}, role : {"user", "admin"}]
        \cup [user_id : {1}, role : {"user"}]

RefreshPayloads == [sub : {"alice"}, user_id : {1}] \cup [user_id : {1}]

MintAccess(payload) ==
    /\ held' = [kind |-> "access", token |-> create_access_token(payload, now),
                payload |-> payload, minted |-> now, forged |-> FALSE]
    /\ tokenRes' = NoTokenRes
    /\ UNCHANGED <<now, notToken>>

MintRefresh(payload) ==
    /\ held' = [kind |-> "refresh", token |-> create_refresh_token(payload, now),
                payload |-> payload, minted |-> now, forged |-> FALSE]
    /\ tokenRes' = NoTokenRes
    /\ UNCHANGED <<now, notToken>>

\* a client alters the claims of the held token: either it keeps the old
\* signature or it signs with a key of its own
Forge(claims, resign) ==
    /\ held.kind # "none"
    /\ ~held.forged
    /\ claims # TokenClaims(held.token)
    /\ held' = [held EXCEPT
                  !.forged = TRUE,
                  !.token = JWTHeader \o <<".">> \o <<claims>> \o <<".">> \o
                            << IF resign THEN Sign("client-key", claims)
                               ELSE TokenSig(held.token) >>]
    /\ tokenRes' = NoTokenRes
    /\ UNCHANGED <<now, notToken>>

ForgedClaims ==
    [sub : {"alice"}, user_id : {1}, role : {"admin"},
     exp : {MaxTime + ACCESS_TOKEN_EXPIRE_MINUTES}, type : {"access"}]

VerifyHeld(token_type) ==
    /\ held.kind # "none"
    /\ tokenRes' = [type |-> token_type, at |-> now,
                    result |-> verify_token(held.token, token_type, now)]
    /\ UNCHANGED <<now, held, notToken>>

TickToken ==
    /\ now + TickMinutes <= MaxTime
    /\ now' = now + TickMinutes
    /\ tokenRes' = NoTokenRes
    /\ UNCHANGED <<held, notToken>>

InitToken ==
    /\ now = 0
    /\ users = <<>>
    /\ sessions = <<>>
    /\ blacklist = {}
    /\ issued = {}
    /\ authResp = [op |-> "none", status |-> 0, detail |-> "", name |-> "",
                   secret |-> "", token |-> NoToken,
                   at |-> 0, sessions_before |-> 0, users_before |-> 0]
    /\ held = NoHeld
    /\ tokenRes = NoTokenRes
    /\ StoreEmpty
    /\ AgentIdle
    /\ ServiceIdle
    /\ BackendIdle

NextToken ==
    \/ \E p \in AccessPayloads : MintAccess(p)
    \/ \E p \in RefreshPayloads : MintRefresh(p)
    \/ \E c \in ForgedClaims, resign \in BOOLEAN : Forge(c, resign)
    \/ \E ty \in {"access", "refresh"} : VerifyHeld(ty)
    \/ TickToken

SpecToken == InitToken /\ [][NextToken]_vars

TokenLifetime(kind) ==
    IF kind = "access" THEN ACCESS_TOKEN_EXPIRE_MINUTES
    ELSE REFRESH_TOKEN_EXPIRE_MINUTES

(* C8: an access token made from a payload with sub, user_id and role
   verifies as "access", before its expiry, to a payload with the same sub,
   user_id and role; a token verified under the other type, an expired
   token, a token whose signature does not match and a token without sub
   all give None; verify_token never raises. *)
C8_TokenRoundTrip ==
    tokenRes.type # "none" =>
        LET r == tokenRes.result
            expired == tokenRes.at > held.minted + TokenLifetime(held.kind)
        IN  /\ r # Raised
            /\ ( /\ ~held.forged
                 /\ held.kind = "access"
                 /\ tokenRes.type = "access"
                 /\ "sub" \in DOMAIN held.payload
                 /\ ~expired )
                  => /\ r # NoPayload
                     /\ r["sub"] = held.payload["sub"]
                     /\ r["user_id"] = held.payload["user_id"]
                     /\ r["role"] = held.payload["role"]
            /\ (~held.forged /\ held.kind # tokenRes.type) => r = NoPayload
            /\ (~held.forged /\ expired) => r = NoPayload
            /\ held.forged => r = NoPayload
            /\ "sub" \notin DOMAIN held.payload => r = NoPayload

C8_Witness ==
    /\ tokenRes.type = "access"
    /\ held.kind = "access"
    /\ ~held.forged
    /\ tokenRes.at = held.minted + ACCESS_TOKEN_EXPIRE_MINUTES
    /\ tokenRes.result # NoPayload
    /\ tokenRes.result["role"] = "admin"

----------------------------------------------------------------------------
(* Documents router and user-stories router: shared pieces *)

(* Bounds *)
MaxDocs == 1
MaxTasks == 2
MaxChunks == 4
MaxAnnotations == 1
MaxStories == 1
MaxVersions == 2
MaxComments == 1

(* Program constants *)
MAX_FILE_SIZE == 50 * 1024 * 1024
ALLOWED_EXTENSIONS ==
    { <<".","p","d","f">>, <<".","d","o","c","x">>, <<".","t","x","t">>,
      <<".","m","d">>, <<".","x","l","s","x">>, <<".","c","s","v">> }

\* table "projects": owner_id of project 1 and of project 2
ProjectOwner == <<1, 2>>
\* current_user.id of an authenticated active caller
CallerIds == {1, 2}
\* ids a request can name; the last one names no row
ProjectIds == {1, 2, 3}

\* db.query(Project).filter(Project.id == project_id, Project.owner_id == user_id).first()
FindProject(project_id, user_id) ==
    IF project_id \in 1..Len(ProjectOwner) /\ ProjectOwner[project_id] = user_id
    THEN project_id ELSE 0

FindDocumentAnyOwner(document_id, user_id) ==
    IF document_id \in 1..Len(docs) /\ docs[document_id].present
    THEN document_id ELSE 0

\* db.query(Document).join(Project).filter(Document.id == document_id,
\*                                         Project.owner_id == user_id).first()
FindDocument(document_id, user_id) ==
    IF /\ document_id \in 1..Len(docs) /\ docs[document_id].present
       /\ ProjectOwner[docs[document_id].project_id] = user_id
    THEN document_id ELSE 0

\* db.query(UserStory).join(Project).filter(UserStory.id == story_id,
\*                                          Project.owner_id == user_id).first()
FindStory(story_id, user_id) ==
    IF /\ story_id \in 1..Len(stories) /\ stories[story_id].present
       /\ ProjectOwner[stories[story_id].project_id] = user_id
    THEN story_id ELSE 0

\* db.query(Project.id).filter(Project.owner_id == user_id)
UserProjectIds(user_id) == {p \in 1..Len(ProjectOwner) : ProjectOwner[p] = user_id}

\* the project a request addresses, as the tables hold it when the request
\* arrives (0: the id names no row)
ProjectOfProject(project_id) == IF project_id \in 1..Len(ProjectOwner) THEN project_id ELSE 0
ProjectOfDocument(document_id) ==
    IF document_id \in 1..Len(docs) /\ docs[document_id].present
    THEN docs[document_id].project_id ELSE 0
ProjectOfStory(story_id) ==
    IF story_id \in 1..Len(stories) /\ stories[story_id].present
    THEN stories[story_id].project_id ELSE 0

\* the response of one request, with what the request did to rows, files and
\* tasks: wrote = a file was written while it ran, changed = it left the
\* tables, the upload directory or the task list different
Response(op, caller, parent, target, status, body, arg, wrote) ==
    [op |-> op, caller |-> caller, parent |-> parent, target |-> target,
     status |-> status, body |-> body, arg |-> arg, wrote |-> wrote,
     changed |-> (store' # store)]

\* the server takes the next request once the last response has gone out
Idle == resp.op = "none"

\* the pending response leaves the server
send_response ==
    /\ ~Idle
    /\ resp' = NoResp
    /\ UNCHANGED <<store, notApi>>

RemoveAt(seq, i) == SubSeq(seq, 1, i - 1) \o SubSeq(seq, i + 1, Len(seq))

\* setattr(row, field, value) for each field of update_data
SetFields(row, update_data) ==
    [f \in DOMAIN row |-> IF f \in DOMAIN update_data THEN update_data[f] ELSE row[f]]

\* background_tasks.add_task(fn, id)
AddTask(fn, id, entities) ==
    Append(tasks, [fn |-> fn, id |-> id, pc |-> "queued", success |-> FALSE,
                   entities |-> entities])

\* str.lower() on the characters file names are made of
LowerChar(c) ==
    CASE c = "P" -> "p" [] c = "D" -> "d" [] c = "F" -> "f" [] c = "T" -> "t"
      [] c = "X" -> "x" [] c = "E" -> "e" [] c = "O" -> "o" [] c = "C" -> "c"
      [] c = "L" -> "l" [] c = "S" -> "s"
      [] OTHER -> c
lower(s) == [i \in 1..Len(s) |-> LowerChar(s[i])]

\* os.path.splitext(name)[1]: from the last dot on, unless only dots precede it
LeadingDots(name) ==
    CHOOSE k \in 0..Len(name) :
        /\ \A i \in 1..k : name[i] = "."
        /\ (k = Len(name) \/ name[k + 1] # ".")
LastDot(name) ==
    IF \E i \in 1..Len(name) : name[i] = "."
    THEN CHOOSE i \in 1..Len(name) :
             name[i] = "." /\ \A j \in (i + 1)..Len(name) : name[j] # "."
    ELSE 0
splitext_ext(name) ==
    IF LastDot(name) > LeadingDots(name)
    THEN SubSeq(name, LastDot(name), Len(name))
    ELSE <<>>

----------------------------------------------------------------------------
(* Documents router *)

\* request inputs
Filenames ==
    { <<>>, <<"a",".","P","D","F">>, <<"n",".","t","x","t">>, <<"x",".","e","x","e">>,
      <<"o",".","d","o","c">>, <<"s",".","X","L","S">>, <<"R","E","A","D","M","E">> }
Sizes == {1024, MAX_FILE_SIZE, MAX_FILE_SIZE + 1}
Texts == {"", "long text"}
NoFields == [f \in {} |-> None]
DocumentUpdates == {NoFields, [summary |-> "edited"]}
StatusFilters == {None, "processed"}

\* Document(...) as upload_document builds it; columns no handler branches on
\* or rewrites later are left out
NewDocument(project_id, file_path, extracted_text) ==
    [present |-> TRUE, project_id |-> project_id, file_path |-> file_path,
     content |-> extracted_text, summary |-> None,
     status |-> IF extracted_text # "" THEN "uploaded" ELSE "processing",
     embeddings_generated |-> FALSE, processing_error |-> None, chunk_count |-> 0]

SizeNeverChecked(size) == FALSE

\* if file.size and file.size > settings.MAX_FILE_SIZE
TooLarge(size) == size # 0 /\ size > MAX_FILE_SIZE

upload_document(user_id, project_id, filename, size) ==
    LET parent == ProjectOfProject(project_id)
        arg == [filename |-> filename, size |-> size]
        file_extension == lower(splitext_ext(filename))
        file_path == Len(docs) + 1
        Reject(code) ==
            /\ UNCHANGED store
            /\ resp' = Response("upload", user_id, parent, 0, code, {}, arg, FALSE)
    IN
    /\ Idle
    /\ UNCHANGED notApi
    /\ IF FindProject(project_id, user_id) = 0 THEN Reject(404)
       ELSE IF filename = <<>> THEN Reject(400)
       ELSE IF file_extension \notin ALLOWED_EXTENSIONS THEN Reject(400)
       ELSE IF TooLarge(size) THEN Reject(413)
       ELSE \* the file is written; what extraction yields and whether the
            \* commit goes through is the environment's choice
            \E extracted_text \in Texts, db_ok \in BOOLEAN :
               IF db_ok
               THEN /\ Len(docs) < MaxDocs /\ Len(tasks) < MaxTasks
                    /\ files' = files \cup {file_path}
                    /\ docs' = Append(docs, NewDocument(project_id, file_path, extracted_text))
                    /\ tasks' = AddTask("_process_document_background", Len(docs) + 1, FALSE)
                    /\ UNCHANGED <<chunks, annotations, stories, versions, comments>>
                    /\ resp' = Response("upload", user_id, parent, Len(docs) + 1, 201,
                                        {<<"document", Len(docs) + 1>>}, arg, TRUE)
               ELSE \* except branch: the written file is removed again
                    /\ UNCHANGED store
                    /\ resp' = Response("upload", user_id, parent, 0, 500, {}, arg, TRUE)

list_documents(user_id, project_id, status_filter) ==
    LET visible(d) ==
            /\ docs[d].present
            /\ IF project_id # 0 THEN docs[d].project_id = project_id
               ELSE docs[d].project_id \in UserProjectIds(user_id)
            /\ (status_filter # None => docs[d].status = status_filter)
    IN
    /\ Idle
    /\ UNCHANGED <<store, notApi>>
    /\ IF project_id # 0 /\ FindProject(project_id, user_id) = 0
       THEN resp' = Response("list_documents", user_id, ProjectOfProject(project_id), 0,
                             404, {}, <<>>, FALSE)
       ELSE resp' = Response("list_documents", user_id, ProjectOfProject(project_id), 0,
                             200, {<<"document", d>> : d \in {x \in 1..Len(docs) : visible(x)}},
                             <<>>, FALSE)

get_document(user_id, document_id) ==
    /\ Idle
    /\ UNCHANGED <<store, notApi>>
    /\ IF FindDocument(document_id, user_id) = 0
       THEN resp' = Response("get_document", user_id, ProjectOfDocument(document_id),
                             document_id, 404, {}, <<>>, FALSE)
       ELSE resp' = Response("get_document", user_id, ProjectOfDocument(document_id),
                             document_id, 200, {<<"document", document_id>>}, <<>>, FALSE)

update_document(user_id, document_id, update_data) ==
    /\ Idle
    /\ UNCHANGED <<files, chunks, annotations, stories, versions, comments, tasks, notApi>>
    /\ IF FindDocument(document_id, user_id) = 0
       THEN /\ UNCHANGED docs
            /\ resp' = Response("update_document", user_id, ProjectOfDocument(document_id),
                                document_id, 404, {}, <<>>, FALSE)
       ELSE /\ docs' = [docs EXCEPT ![document_id] = SetFields(@, update_data)]
            /\ resp' = Response("update_document", user_id, ProjectOfDocument(document_id),
                                document_id, 200, {<<"document", document_id>>}, <<>>, FALSE)

\* document_chunks.document_id and document_annotations.document_id are
\* NOT NULL foreign keys: the row cannot go while rows refer to it
DocumentReferenced(document_id) ==
    \/ \E i \in 1..Len(chunks) : chunks[i].document_id = document_id
    \/ \E i \in 1..Len(annotations) : annotations[i].document_id = document_id

delete_document(user_id, document_id) ==
    /\ Idle
    /\ UNCHANGED <<chunks, annotations, stories, versions, comments, tasks, notApi>>
    /\ IF FindDocument(document_id, user_id) = 0
       THEN /\ UNCHANGED <<docs, files>>
            /\ resp' = Response("delete_document", user_id, ProjectOfDocument(document_id),
                                document_id, 404, {}, <<>>, FALSE)
       ELSE \* os.remove first, then db.delete and db.commit
            /\ files' = files \ {docs[document_id].file_path}
            /\ IF DocumentReferenced(document_id)
               THEN /\ UNCHANGED docs
                    /\ resp' = Response("delete_document", user_id,
                                        ProjectOfDocument(document_id), document_id,
                                        500, {}, <<>>, FALSE)
               ELSE /\ docs' = [docs EXCEPT ![document_id].present = FALSE]
                    /\ resp' = Response("delete_document", user_id,
                                        ProjectOfDocument(document_id), document_id,
                                        200, {}, <<>>, FALSE)

reprocess_no_error_reset(row) ==
    [row EXCEPT !.status = "processing", !.embeddings_generated = FALSE]

\* the reset reprocess_document applies to the row
reprocess_reset(row) ==
    [row EXCEPT !.status = "processing", !.embeddings_generated = FALSE,
                !.processing_error = None]

reprocess_document(user_id, document_id) ==
    /\ Idle
    /\ UNCHANGED <<files, chunks, annotations, stories, versions, comments, notApi>>
    /\ IF FindDocument(document_id, user_id) = 0
       THEN /\ UNCHANGED <<docs, tasks>>
            /\ resp' = Response("reprocess", user_id, ProjectOfDocument(document_id),
                                document_id, 404, {}, <<>>, FALSE)
       ELSE /\ Len(tasks) < MaxTasks
            /\ docs' = [docs EXCEPT ![document_id] = reprocess_reset(@)]
            /\ tasks' = AddTask("_process_document_background", document_id, FALSE)
            /\ resp' = Response("reprocess", user_id, ProjectOfDocument(document_id),
                                document_id, 200, {}, docs[document_id], FALSE)

get_document_chunks(user_id, document_id) ==
    /\ Idle
    /\ UNCHANGED <<store, notApi>>
    /\ IF FindDocument(document_id, user_id) = 0
       THEN resp' = Response("chunks", user_id, ProjectOfDocument(document_id),
                             document_id, 404, {}, <<>>, FALSE)
       ELSE resp' = Response("chunks", user_id, ProjectOfDocument(document_id),
                             document_id, 200,
                             {<<"chunk", i>> : i \in {x \in 1..Len(chunks) :
                                                chunks[x].document_id = document_id}},
                             <<>>, FALSE)

add_annotation(user_id, document_id) ==
    /\ Idle
    /\ UNCHANGED <<docs, files, chunks, stories, versions, comments, tasks, notApi>>
    /\ IF FindDocument(document_id, user_id) = 0
       THEN /\ UNCHANGED annotations
            /\ resp' = Response("add_annotation", user_id, ProjectOfDocument(document_id),
                                document_id, 404, {}, <<>>, FALSE)
       ELSE /\ Len(annotations) < MaxAnnotations
            /\ annotations' = Append(annotations,
                                     [document_id |-> document_id, user_id |-> user_id])
            /\ resp' = Response("add_annotation", user_id, ProjectOfDocument(document_id),
                                document_id, 201, {<<"annotation", Len(annotations) + 1>>},
                                <<>>, FALSE)

get_annotations(user_id, document_id) ==
    /\ Idle
    /\ UNCHANGED <<store, notApi>>
    /\ IF FindDocument(document_id, user_id) = 0
       THEN resp' = Response("get_annotations", user_id, ProjectOfDocument(document_id),
                             document_id, 404, {}, <<>>, FALSE)
       ELSE resp' = Response("get_annotations", user_id, ProjectOfDocument(document_id),
                             document_id, 200,
                             {<<"annotation", i>> : i \in {x \in 1..Len(annotations) :
                                                annotations[x].document_id = document_id}},
                             <<>>, FALSE)

\* the matches are cut out of document.content; a document without content
\* answers with none
search_document_content(user_id, document_id) ==
    /\ Idle
    /\ UNCHANGED <<store, notApi>>
    /\ IF FindDocument(document_id, user_id) = 0
       THEN resp' = Response("search", user_id, ProjectOfDocument(document_id),
                             document_id, 404, {}, <<>>, FALSE)
       ELSE resp' = Response("search", user_id, ProjectOfDocument(document_id),
                             document_id, 200,
                             IF docs[document_id].content = "" THEN {}
                             ELSE {<<"content", document_id>>},
                             <<>>, FALSE)

----------------------------------------------------------------------------
(* _process_document_background, one action per commit it makes *)

\* number of pieces text_splitter.split_text cuts a text into
split_text(content) == IF content = "" THEN 0 ELSE 2

DocumentExists(document_id) == document_id \in 1..Len(docs) /\ docs[document_id].present

\* background tasks run once the response of the request has gone out
IsTaskAt(i, at) ==
    /\ Idle
    /\ i \in 1..Len(tasks)
    /\ tasks[i].fn = "_process_document_background"
    /\ tasks[i].pc = at

\* load the row, set status "processing", commit; a commit that raises leaves
\* the row as it was and enters the except branch
process_background_start(i, commit_ok) ==
    /\ IsTaskAt(i, "queued")
    /\ IF ~DocumentExists(tasks[i].id)
       THEN /\ UNCHANGED docs
            /\ tasks' = RemoveAt(tasks, i)
       ELSE IF commit_ok
       THEN /\ docs' = [docs EXCEPT ![tasks[i].id].status = "processing"]
            /\ tasks' = [tasks EXCEPT ![i].pc = "process"]
       ELSE /\ UNCHANGED docs
            /\ tasks' = [tasks EXCEPT ![i].pc = "fallback"]
    /\ UNCHANGED <<files, chunks, annotations, stories, versions, comments, resp, notApi>>

\* DocumentProcessor.process_document as called by process_and_index_document
process_document(i, ok) ==
    LET d == tasks[i].id
        n == split_text(docs[d].content)
    IN
    /\ IsTaskAt(i, "process")
    /\ IF ~DocumentExists(d)
       THEN /\ UNCHANGED <<docs, chunks>>
            /\ tasks' = RemoveAt(tasks, i)
       ELSE IF docs[d].content = ""
       THEN \* returns [], so process_and_index_document returns False
            /\ UNCHANGED <<docs, chunks>>
            /\ tasks' = [tasks EXCEPT ![i].pc = "finish", ![i].success = FALSE]
       ELSE IF ok
       THEN /\ Len(chunks) + n <= MaxChunks
            /\ chunks' = chunks \o [k \in 1..n |-> [document_id |-> d, chunk_index |-> k - 1]]
            /\ docs' = [docs EXCEPT ![d].chunk_count = n, ![d].status = "processed"]
            /\ tasks' = [tasks EXCEPT ![i].pc = "index"]
       ELSE \* except branch: status "failed", commit, re-raise
            /\ UNCHANGED chunks
            /\ docs' = [docs EXCEPT ![d].status = "failed",
                                    ![d].processing_error = "processing error"]
            /\ tasks' = [tasks EXCEPT ![i].pc = "finish", ![i].success = FALSE]
    /\ UNCHANGED <<files, annotations, stories, versions, comments, resp, notApi>>

\* the rest of process_and_index_document: vector store, embeddings flag, commit
index_document(i, ok) ==
    LET d == tasks[i].id IN
    /\ IsTaskAt(i, "index")
    /\ IF ~DocumentExists(d)
       THEN /\ UNCHANGED docs
            /\ tasks' = RemoveAt(tasks, i)
       ELSE IF ok
       THEN /\ docs' = [docs EXCEPT ![d].embeddings_generated = TRUE]
            /\ tasks' = [tasks EXCEPT ![i].pc = "finish", ![i].success = TRUE]
       ELSE /\ UNCHANGED docs
            /\ tasks' = [tasks EXCEPT ![i].pc = "finish", ![i].success = FALSE]
    /\ UNCHANGED <<files, chunks, annotations, stories, versions, comments, resp, notApi>>

final_status_always_processed(row, success) == [row EXCEPT !.status = "processed"]

\* if success: status "processed", else status "failed" with the fixed message
final_status(row, success) ==
    IF success THEN [row EXCEPT !.status = "processed"]
    ELSE [row EXCEPT !.status = "failed",
                     !.processing_error = "Failed to process document for RAG indexing"]

\* except branch: a new session re-reads the row and marks it failed
mark_failed(row) ==
    [row EXCEPT !.status = "failed", !.processing_error = "processing error"]

\* the final status write and commit; a commit that raises leaves the row as
\* it was and enters the except branch
process_background_finish(i, commit_ok) ==
    LET d == tasks[i].id IN
    /\ IsTaskAt(i, "finish")
    /\ IF ~DocumentExists(d)
       THEN /\ UNCHANGED docs
            /\ tasks' = RemoveAt(tasks, i)
       ELSE IF ~commit_ok
       THEN /\ UNCHANGED docs
            /\ tasks' = [tasks EXCEPT ![i].pc = "fallback"]
       ELSE /\ tasks' = RemoveAt(tasks, i)
            /\ docs' = [docs EXCEPT ![d] = final_status(docs[d], tasks[i].success)]
    /\ UNCHANGED <<files, chunks, annotations, stories, versions, comments, resp, notApi>>

\* the except branch of the task: its own failure is logged and swallowed
process_background_fallback(i, commit_ok) ==
    LET d == tasks[i].id IN
    /\ IsTaskAt(i, "fallback")
    /\ IF DocumentExists(d) /\ commit_ok
       THEN docs' = [docs EXCEPT ![d] = mark_failed(docs[d])]
       ELSE UNCHANGED docs
    /\ tasks' = RemoveAt(tasks, i)
    /\ UNCHANGED <<files, chunks, annotations, stories, versions, comments, resp, notApi>>

\* two registered, active accounts own the two projects
InitApi ==
    /\ now = 0
    /\ users = << NewUser("alice", "a@x.com", <<"p","w","1">>),
                  NewUser("bob", "b@x.com", <<"p","w","2">>) >>
    /\ sessions = <<>>
    /\ blacklist = {}
    /\ issued = {}
    /\ authResp = [op |-> "none", status |-> 0, detail |-> "", name |-> "",
                   secret |-> "", token |-> NoToken,
                   at |-> 0, sessions_before |-> 0, users_before |-> 2]
    /\ held = NoHeld
    /\ tokenRes = NoTokenRes
    /\ StoreEmpty
    /\ AgentIdle
    /\ ServiceIdle
    /\ BackendIdle

NextDocs ==
    \/ \E u \in CallerIds, p \in ProjectIds, f \in Filenames, z \in Sizes :
          upload_document(u, p, f, z)
    \/ \E u \in CallerIds, p \in {0} \cup ProjectIds, sf \in StatusFilters :
          list_documents(u, p, sf)
    \/ \E u \in CallerIds, d \in 1..(MaxDocs + 1) : get_document(u, d)
    \/ \E u \in CallerIds, d \in 1..(MaxDocs + 1), upd \in DocumentUpdates :
          update_document(u, d, upd)
    \/ \E u \in CallerIds, d \in 1..(MaxDocs + 1) : delete_document(u, d)
    \/ \E u \in CallerIds, d \in 1..(MaxDocs + 1) : reprocess_document(u, d)
    \/ \E u \in CallerIds, d \in 1..(MaxDocs + 1) : get_document_chunks(u, d)
    \/ \E u \in CallerIds, d \in 1..(MaxDocs + 1) : add_annotation(u, d)
    \/ \E u \in CallerIds, d \in 1..(MaxDocs + 1) : get_annotations(u, d)
    \/ \E u \in CallerIds, d \in 1..(MaxDocs + 1) : search_document_content(u, d)
    \/ send_response
    \/ \E i \in 1..MaxTasks, ok \in BOOLEAN : process_background_start(i, ok)
    \/ \E i \in 1..MaxTasks, ok \in BOOLEAN : process_document(i, ok)
    \/ \E i \in 1..MaxTasks, ok \in BOOLEAN : index_document(i, ok)
    \/ \E i \in 1..MaxTasks, ok \in BOOLEAN : process_background_finish(i, ok)
    \/ \E i \in 1..MaxTasks, ok \in BOOLEAN : process_background_fallback(i, ok)

SpecDocs == InitApi /\ [][NextDocs]_vars

----------------------------------------------------------------------------
(* User-stories router *)

\* request inputs and outcomes of the services the handlers call
StoryUpdates == {NoFields, [title |-> "Edited story"], [title |-> "Generated User Story"]}
AgentOutcomes == {"stories", "no stories", "raised"}
QualityOutcomes == {"scores", "no scores", "raised"}
JiraOutcomes == {"created", "failed", "import error"}

\* UserStory(...) as generate_user_stories builds it; columns no handler
\* rewrites are left out
NewUserStory(project_id) ==
    [present |-> TRUE, project_id |-> project_id, title |-> "Generated User Story",
     quality_score |-> None, jira_issue_key |-> None, kg_story_id |-> None]

\* UserStory.to_dict(): the row's columns under their names, with its id
to_dict(story_id) ==
    [f \in (DOMAIN stories[story_id] \ {"present"}) \cup {"id"} |->
        IF f = "id" THEN story_id ELSE stories[story_id][f]]

\* len(story.versions)
VersionCount(story_id) ==
    Cardinality({i \in 1..Len(versions) : versions[i].user_story_id = story_id})

version_number_one(story_id) == 1

\* version_number=len(story.versions) + 1
next_version_number(story_id) == VersionCount(story_id) + 1

generate_user_stories(user_id, project_id) ==
    LET parent == ProjectOfProject(project_id)
        story_id == Len(stories) + 1
    IN
    /\ Idle
    /\ UNCHANGED <<docs, files, chunks, annotations, versions, comments, notApi>>
    /\ IF FindProject(project_id, user_id) = 0
       THEN /\ UNCHANGED <<stories, tasks>>
            /\ resp' = Response("generate", user_id, parent, 0, 404, {}, <<>>, FALSE)
       ELSE \E outcome \in AgentOutcomes, entities \in BOOLEAN :
               IF outcome = "stories"
               THEN /\ Len(stories) < MaxStories /\ Len(tasks) < MaxTasks
                    /\ stories' = Append(stories, NewUserStory(project_id))
                    /\ tasks' = AddTask("_create_knowledge_graph_entities", story_id, entities)
                    /\ resp' = Response("generate", user_id, parent, story_id, 201,
                                        {<<"story", story_id>>}, <<>>, FALSE)
               ELSE /\ UNCHANGED <<stories, tasks>>
                    /\ resp' = Response("generate", user_id, parent, 0,
                                        IF outcome = "raised" THEN 500 ELSE 201,
                                        {}, <<>>, FALSE)

list_user_stories(user_id, project_id) ==
    LET visible(x) ==
            /\ stories[x].present
            /\ IF project_id # 0 THEN stories[x].project_id = project_id
               ELSE stories[x].project_id \in UserProjectIds(user_id)
    IN
    /\ Idle
    /\ UNCHANGED <<store, notApi>>
    /\ IF project_id # 0 /\ FindProject(project_id, user_id) = 0
       THEN resp' = Response("list_user_stories", user_id, ProjectOfProject(project_id), 0,
                             404, {}, <<>>, FALSE)
       ELSE resp' = Response("list_user_stories", user_id, ProjectOfProject(project_id), 0,
                             200, {<<"story", x>> : x \in {y \in 1..Len(stories) : visible(y)}},
                             <<>>, FALSE)

get_user_story(user_id, story_id) ==
    /\ Idle
    /\ UNCHANGED <<store, notApi>>
    /\ IF FindStory(story_id, user_id) = 0
       THEN resp' = Response("get_user_story", user_id, ProjectOfStory(story_id),
                             story_id, 404, {}, <<>>, FALSE)
       ELSE resp' = Response("get_user_story", user_id, ProjectOfStory(story_id),
                             story_id, 200, {<<"story", story_id>>}, <<>>, FALSE)

SnapshotAfterUpdate(story_id, update_data) ==
    [to_dict(story_id) EXCEPT !.title = SetFields(stories[story_id], update_data).title]

\* story_data of the version row update_user_story adds
Snapshot(story_id, update_data) == to_dict(story_id)

update_user_story(user_id, story_id, update_data) ==
    LET version == [user_story_id |-> story_id,
                    version_number |-> next_version_number(story_id),
                    changed_by_user_id |-> user_id,
                    story_data |-> Snapshot(story_id, update_data)]
        before == [story |-> stories[story_id], versions |-> VersionCount(story_id)]
    IN
    /\ Idle
    /\ UNCHANGED <<docs, files, chunks, annotations, comments, tasks, notApi>>
    /\ IF FindStory(story_id, user_id) = 0
       THEN /\ UNCHANGED <<stories, versions>>
            /\ resp' = Response("update_user_story", user_id, ProjectOfStory(story_id),
                                story_id, 404, {}, <<>>, FALSE)
       ELSE \E commit_ok \in BOOLEAN :
               IF commit_ok
               THEN /\ VersionCount(story_id) < MaxVersions
                    /\ versions' = Append(versions, version)
                    /\ stories' = [stories EXCEPT ![story_id] = SetFields(@, update_data)]
                    /\ resp' = Response("update_user_story", user_id,
                                        ProjectOfStory(story_id), story_id, 200,
                                        {<<"story", story_id>>}, before, FALSE)
               ELSE /\ UNCHANGED <<stories, versions>>
                    /\ resp' = Response("update_user_story", user_id,
                                        ProjectOfStory(story_id), story_id, 500,
                                        {}, before, FALSE)

\* update_user_story handled by worker process w, up to db.add(version): the
\* story is loaded and the version row is built from what the session has read
update_user_story_read(w, user_id, story_id, update_data) ==
    /\ ~inflight[w].busy
    /\ UNCHANGED <<store, now, users, sessions, blacklist, issued, authResp, held,
                   tokenRes, agentVars, serviceVars, backendVars>>
    /\ IF FindStory(story_id, user_id) = 0
       THEN /\ Idle
            /\ UNCHANGED inflight
            /\ resp' = Response("update_user_story", user_id, ProjectOfStory(story_id),
                                story_id, 404, {}, <<>>, FALSE)
       ELSE /\ UNCHANGED resp
            /\ inflight' = [inflight EXCEPT ![w] =
                   [busy |-> TRUE, user_id |-> user_id, story_id |-> story_id,
                    update_data |-> update_data,
                    version |-> [user_story_id |-> story_id,
                                 version_number |-> next_version_number(story_id),
                                 changed_by_user_id |-> user_id,
                                 story_data |-> Snapshot(story_id, update_data)]]]

\* the rest of the request of worker w: setattr, db.commit(), the response
update_user_story_commit(w) ==
    LET r == inflight[w]
        before == [story |-> stories[r.story_id], versions |-> VersionCount(r.story_id)]
    IN
    /\ r.busy
    /\ Idle
    /\ inflight' = [inflight EXCEPT ![w] = NoRequest]
    /\ UNCHANGED <<docs, files, chunks, annotations, comments, tasks, now, users,
                   sessions, blacklist, issued, authResp, held, tokenRes, agentVars,
                   serviceVars, backendVars>>
    /\ \E commit_ok \in BOOLEAN :
          IF commit_ok
          THEN /\ VersionCount(r.story_id) < MaxVersions
               /\ versions' = Append(versions, r.version)
               /\ stories' = [stories EXCEPT ![r.story_id] = SetFields(@, r.update_data)]
               /\ resp' = Response("update_user_story", r.user_id,
                                   ProjectOfStory(r.story_id), r.story_id, 200,
                                   {<<"story", r.story_id>>}, before, FALSE)
          ELSE /\ UNCHANGED <<stories, versions>>
               /\ resp' = Response("update_user_story", r.user_id,
                                   ProjectOfStory(r.story_id), r.story_id, 500,
                                   {}, before, FALSE)

\* user_story_versions.user_story_id and user_story_comments.user_story_id are
\* NOT NULL foreign keys: the row cannot go while rows refer to it
StoryReferenced(story_id) ==
    \/ \E i \in 1..Len(versions) : versions[i].user_story_id = story_id
    \/ \E i \in 1..Len(comments) : comments[i].user_story_id = story_id

delete_user_story(user_id, story_id) ==
    /\ Idle
    /\ UNCHANGED <<docs, files, chunks, annotations, versions, comments, tasks, notApi>>
    /\ IF FindStory(story_id, user_id) = 0
       THEN /\ UNCHANGED stories
            /\ resp' = Response("delete_user_story", user_id, ProjectOfStory(story_id),
                                story_id, 404, {}, <<>>, FALSE)
       ELSE IF StoryReferenced(story_id)
       THEN /\ UNCHANGED stories
            /\ resp' = Response("delete_user_story", user_id, ProjectOfStory(story_id),
                                story_id, 500, {}, <<>>, FALSE)
       ELSE /\ stories' = [stories EXCEPT ![story_id].present = FALSE]
            /\ resp' = Response("delete_user_story", user_id, ProjectOfStory(story_id),
                                story_id, 200, {}, <<>>, FALSE)

add_comment(user_id, story_id) ==
    /\ Idle
    /\ UNCHANGED <<docs, files, chunks, annotations, stories, versions, tasks, notApi>>
    /\ IF FindStory(story_id, user_id) = 0
       THEN /\ UNCHANGED comments
            /\ resp' = Response("add_comment", user_id, ProjectOfStory(story_id),
                                story_id, 404, {}, <<>>, FALSE)
       ELSE /\ Len(comments) < MaxComments
            /\ comments' = Append(comments, [user_story_id |-> story_id, user_id |-> user_id])
            /\ resp' = Response("add_comment", user_id, ProjectOfStory(story_id),
                                story_id, 201, {<<"comment", Len(comments) + 1>>},
                                <<>>, FALSE)

get_comments(user_id, story_id) ==
    /\ Idle
    /\ UNCHANGED <<store, notApi>>
    /\ IF FindStory(story_id, user_id) = 0
       THEN resp' = Response("get_comments", user_id, ProjectOfStory(story_id),
                             story_id, 404, {}, <<>>, FALSE)
       ELSE resp' = Response("get_comments", user_id, ProjectOfStory(story_id),
                             story_id, 200,
                             {<<"comment", i>> : i \in {x \in 1..Len(comments) :
                                                comments[x].user_story_id = story_id}},
                             <<>>, FALSE)

enhance_user_story(user_id, story_id) ==
    /\ Idle
    /\ UNCHANGED <<store, notApi>>
    /\ IF FindStory(story_id, user_id) = 0
       THEN resp' = Response("enhance", user_id, ProjectOfStory(story_id),
                             story_id, 404, {}, <<>>, FALSE)
       ELSE \E ok \in BOOLEAN :
               resp' = Response("enhance", user_id, ProjectOfStory(story_id), story_id,
                                IF ok THEN 200 ELSE 500,
                                IF ok THEN {<<"story", story_id>>} ELSE {}, <<>>, FALSE)

perform_quality_check(user_id, story_id) ==
    /\ Idle
    /\ UNCHANGED <<docs, files, chunks, annotations, versions, comments, tasks, notApi>>
    /\ IF FindStory(story_id, user_id) = 0
       THEN /\ UNCHANGED stories
            /\ resp' = Response("quality_check", user_id, ProjectOfStory(story_id),
                                story_id, 404, {}, <<>>, FALSE)
       ELSE \E outcome \in QualityOutcomes :
               /\ IF outcome = "scores"
                  THEN stories' = [stories EXCEPT ![story_id].quality_score = "scored"]
                  ELSE UNCHANGED stories
               /\ resp' = Response("quality_check", user_id, ProjectOfStory(story_id),
                                   story_id, IF outcome = "raised" THEN 500 ELSE 200,
                                   IF outcome = "raised" THEN {} ELSE {<<"story", story_id>>},
                                   <<>>, FALSE)

get_story_versions(user_id, story_id) ==
    /\ Idle
    /\ UNCHANGED <<store, notApi>>
    /\ IF FindStory(story_id, user_id) = 0
       THEN resp' = Response("versions", user_id, ProjectOfStory(story_id),
                             story_id, 404, {}, <<>>, FALSE)
       ELSE resp' = Response("versions", user_id, ProjectOfStory(story_id),
                             story_id, 200,
                             {<<"version", i>> : i \in {x \in 1..Len(versions) :
                                                versions[x].user_story_id = story_id}},
                             <<>>, FALSE)

get_related_entities(user_id, story_id) ==
    /\ Idle
    /\ UNCHANGED <<store, notApi>>
    /\ IF FindStory(story_id, user_id) = 0
       THEN resp' = Response("related_entities", user_id, ProjectOfStory(story_id),
                             story_id, 404, {}, <<>>, FALSE)
       ELSE \E ok \in BOOLEAN :
               resp' = Response("related_entities", user_id, ProjectOfStory(story_id),
                                story_id, IF ok THEN 200 ELSE 500,
                                IF ok THEN {<<"entities", stories[story_id].project_id>>}
                                ELSE {}, <<>>, FALSE)

\* the HTTPException(400) raised on a failed export is caught by the handler's
\* own "except Exception" and leaves as 500
export_to_jira(user_id, story_id) ==
    /\ Idle
    /\ UNCHANGED <<docs, files, chunks, annotations, versions, comments, tasks, notApi>>
    /\ IF FindStory(story_id, user_id) = 0
       THEN /\ UNCHANGED stories
            /\ resp' = Response("export_jira", user_id, ProjectOfStory(story_id),
                                story_id, 404, {}, <<>>, FALSE)
       ELSE \E outcome \in JiraOutcomes :
               /\ IF outcome = "created"
                  THEN stories' = [stories EXCEPT ![story_id].jira_issue_key = "issue key"]
                  ELSE UNCHANGED stories
               /\ resp' = Response("export_jira", user_id, ProjectOfStory(story_id),
                                   story_id,
                                   CASE outcome = "created" -> 200
                                     [] outcome = "import error" -> 501
                                     [] OTHER -> 500,
                                   {}, <<>>, FALSE)

\* for the owner the handler runs into db.func, which a Session does not
\* have, inside its try block: the except branch answers 500
get_project_analytics(user_id, project_id) ==
    /\ Idle
    /\ UNCHANGED <<store, notApi>>
    /\ IF FindProject(project_id, user_id) = 0
       THEN resp' = Response("analytics", user_id, ProjectOfProject(project_id), 0,
                             404, {}, <<>>, FALSE)
       ELSE resp' = Response("analytics", user_id, ProjectOfProject(project_id), 0,
                             500, {}, <<>>, FALSE)

\* background task: sets kg_story_id when at least one entity was created
create_knowledge_graph_entities(i, created) ==
    LET sid == tasks[i].id IN
    /\ Idle
    /\ i \in 1..Len(tasks)
    /\ tasks[i].fn = "_create_knowledge_graph_entities"
    /\ IF /\ sid \in 1..Len(stories) /\ stories[sid].present
          /\ tasks[i].entities /\ created
       THEN stories' = [stories EXCEPT ![sid].kg_story_id = "entity id"]
       ELSE UNCHANGED stories
    /\ tasks' = RemoveAt(tasks, i)
    /\ UNCHANGED <<docs, files, chunks, annotations, versions, comments, resp, notApi>>

NextStories ==
    \/ \E u \in CallerIds, p \in ProjectIds : generate_user_stories(u, p)
    \/ \E u \in CallerIds, p \in {0} \cup ProjectIds : list_user_stories(u, p)
    \/ \E u \in CallerIds, x \in 1..(MaxStories + 1) : get_user_story(u, x)
    \/ \E u \in CallerIds, x \in 1..(MaxStories + 1), upd \in StoryUpdates :
          update_user_story(u, x, upd)
    \/ \E u \in CallerIds, x \in 1..(MaxStories + 1) : delete_user_story(u, x)
    \/ \E u \in CallerIds, x \in 1..(MaxStories + 1) : add_comment(u, x)
    \/ \E u \in CallerIds, x \in 1..(MaxStories + 1) : get_comments(u, x)
    \/ \E u \in CallerIds, x \in 1..(MaxStories + 1) : enhance_user_story(u, x)
    \/ \E u \in CallerIds, x \in 1..(MaxStories + 1) : perform_quality_check(u, x)
    \/ \E u \in CallerIds, x \in 1..(MaxStories + 1) : get_story_versions(u, x)
    \/ \E u \in CallerIds, x \in 1..(MaxStories + 1) : get_related_entities(u, x)
    \/ \E u \in CallerIds, x \in 1..(MaxStories + 1) : export_to_jira(u, x)
    \/ \E u \in CallerIds, p \in ProjectIds : get_project_analytics(u, p)
    \/ send_response
    \/ \E i \in 1..MaxTasks, created \in BOOLEAN : create_knowledge_graph_entities(i, created)

SpecStories == InitApi /\ [][NextStories]_vars

----------------------------------------------------------------------------
(* Both routers behind one server.  The document handlers work on documents,
   files, chunks and annotations, the user-story handlers on stories,
   versions and comments, and a task only touches rows of the router that
   scheduled it; the clients of one run therefore keep to the router whose
   rows they have begun to fill. *)
\* stories are generated and updated; the update requests of different worker
\* processes interleave between reading the story and committing
NextVersions ==
    \/ \E u \in CallerIds, p \in ProjectIds : generate_user_stories(u, p)
    \/ \E w \in Workers, u \in CallerIds, x \in 1..(MaxStories + 1), upd \in StoryUpdates :
          update_user_story_read(w, u, x, upd)
    \/ \E w \in Workers : update_user_story_commit(w)
    \/ send_response
    \/ \E i \in 1..MaxTasks, created \in BOOLEAN : create_knowledge_graph_entities(i, created)

SpecVersions == InitApi /\ [][NextVersions]_vars

DocumentSideEmpty ==
    /\ docs = <<>> /\ files = {} /\ chunks = <<>> /\ annotations = <<>>
    /\ \A i \in 1..Len(tasks) : tasks[i].fn # "_process_document_background"
StorySideEmpty ==
    /\ stories = <<>> /\ versions = <<>> /\ comments = <<>>
    /\ \A i \in 1..Len(tasks) : tasks[i].fn # "_create_knowledge_graph_entities"

NextAccess ==
    \/ StorySideEmpty /\ NextDocs
    \/ DocumentSideEmpty /\ NextStories

SpecAccess == InitApi /\ [][NextAccess]_vars

(* C2: a caller who does not own the project that a request addresses (directly,
   or as the parent of the document or user story it names) is answered 404
   with no record in the body, and the request writes no file and leaves
   every table, the upload directory and the task list as they were; a list
   request without a project filter returns only items of projects the caller
   owns. *)
C2_NonOwnerGets404 ==
    /\ (resp.op # "none" /\ resp.parent # 0 /\ ProjectOwner[resp.parent] # resp.caller)
          => (resp.status = 404 /\ resp.body = {} /\ ~resp.wrote /\ ~resp.changed)
    /\ (resp.op = "list_documents" /\ resp.parent = 0 /\ resp.status = 200)
          => \A item \in resp.body :
                ProjectOwner[docs[item[2]].project_id] = resp.caller
    /\ (resp.op = "list_user_stories" /\ resp.parent = 0 /\ resp.status = 200)
          => \A item \in resp.body :
                ProjectOwner[stories[item[2]].project_id] = resp.caller

\* a caller asked to reprocess an existing document of a project of another user
C2_Witness ==
    /\ resp.op = "reprocess" /\ resp.status = 404
    /\ resp.parent # 0 /\ ProjectOwner[resp.parent] # resp.caller
    /\ docs[resp.target].present

(* C3: a PUT /user-stories/{id} answered 200 has added exactly one version row
   for the story; its story_data holds the column values the story had before
   the update and its version_number is the number of versions the story had
   before plus one.  The version numbers of a story, in the order the rows
   were added, are 1, 2, ..., n. *)
C3_UpdateAddsOneVersion ==
    /\ (resp.op = "update_user_story" /\ resp.status = 200) =>
          LET mine == {i \in 1..Len(versions) : versions[i].user_story_id = resp.target}
              last == CHOOSE i \in mine : \A j \in mine : j <= i
          IN /\ Cardinality(mine) = resp.arg.versions + 1
             /\ versions[last].version_number = resp.arg.versions + 1
             /\ \A f \in DOMAIN resp.arg.story \ {"present"} :
                   versions[last].story_data[f] = resp.arg.story[f]
    /\ \A i \in 1..Len(versions) :
          versions[i].version_number =
              Cardinality({j \in 1..i : versions[j].user_story_id = versions[i].user_story_id})

\* the second update of a story, changing its title
C3_Witness ==
    /\ resp.op = "update_user_story" /\ resp.status = 200
    /\ resp.arg.versions = 1
    /\ stories[resp.target].title # resp.arg.story.title

(* C9: an upload by the owner of the project whose file extension is not in
   ALLOWED_EXTENSIONS is answered 400, and one with an allowed extension whose
   size exceeds MAX_FILE_SIZE is answered 413; an upload answered 400 or 413
   has written no file, added no Document row and scheduled no task. *)
C9_UploadRejectedBeforeWrite ==
    resp.op = "upload" =>
        /\ (resp.parent # 0 /\ ProjectOwner[resp.parent] = resp.caller) =>
              LET ext == lower(splitext_ext(resp.arg.filename)) IN
              /\ ext \notin ALLOWED_EXTENSIONS => resp.status = 400
              /\ (ext \in ALLOWED_EXTENSIONS /\ resp.arg.size > MAX_FILE_SIZE)
                    => resp.status = 413
        /\ resp.status \in {400, 413} =>
              /\ ~resp.wrote /\ ~resp.changed /\ resp.body = {}

\* an upload with an allowed extension, one byte over the ceiling
C9_Witness ==
    /\ resp.op = "upload" /\ resp.status = 413
    /\ resp.arg.size = MAX_FILE_SIZE + 1
    /\ docs = <<>> /\ files = {} /\ tasks = <<>>

\* the step ends task i, a background indexing task of a document that exists
IndexingTaskEnds(i) ==
    /\ i \in 1..Len(tasks)
    /\ tasks[i].fn = "_process_document_background"
    /\ DocumentExists(tasks[i].id)
    /\ tasks' = RemoveAt(tasks, i)

(* C11 as stated: whenever a background indexing task of an existing document
   ends, the document's status is "processed" if the pipeline reported success
   and the status update went through, and "failed" in every other case (no
   content, an exception inside the task, a failed primary status update); it
   is never left at "processing". *)
C11_TaskEndsProcessedOrFailed ==
    [][ \A i \in 1..MaxTasks :
          IndexingTaskEnds(i) =>
             docs'[tasks[i].id].status =
                 IF tasks[i].pc = "finish" /\ tasks[i].success
                 THEN "processed" ELSE "failed" ]_vars

(* C11 amended: a task that ends by its primary status update leaves
   "processed" exactly when the pipeline reported success and "failed"
   otherwise; a task that ends in its except branch leaves "failed", or, when
   the fallback update fails as well, the row exactly as it was last
   committed. *)
C11_TaskEndsUnlessFallbackFails ==
    [][ \A i \in 1..MaxTasks :
          IndexingTaskEnds(i) =>
             LET d == tasks[i].id IN
             IF tasks[i].pc = "finish"
             THEN docs'[d].status = IF tasks[i].success THEN "processed" ELSE "failed"
             ELSE docs'[d].status = "failed" \/ docs'[d] = docs[d] ]_vars

\* a task has ended in its except branch and the row is marked failed
C11_Witness ==
    /\ tasks = <<>>
    /\ Len(docs) >= 1
    /\ docs[1].present
    /\ docs[1].status = "failed"
    /\ docs[1].processing_error = "processing error"

\* steps of worker w: it reads the story, or its commit goes through
ReadsStory(w) == ~inflight[w].busy /\ inflight'[w].busy
CommitsUpdate(w) == inflight[w].busy /\ ~inflight'[w].busy /\ resp'.status = 200

StoryVersionNumbers(story_id) ==
    {versions[i].version_number :
        i \in {j \in 1..Len(versions) : versions[j].user_story_id = story_id}}

(* C15: the version_number of a version row is the number of versions the
   story had when the request read it, plus one, and the row is written with
   that number whatever was committed in between. An update that commits with
   no other version of the story committed since its read gets a number
   greater than every number of the story (serialized updates are distinct and
   strictly increasing); two requests that both read before either commits
   carry the same number, and both rows are written. *)
C15_VersionNumberFromReadCount ==
    [][ \A w \in Workers :
          /\ ReadsStory(w) =>
                inflight'[w].version.version_number
                    = VersionCount(inflight'[w].story_id) + 1
          /\ CommitsUpdate(w) =>
                LET r == inflight[w] IN
                /\ versions' = Append(versions, r.version)
                /\ (r.version.version_number = VersionCount(r.story_id) + 1) =>
                      \A n \in StoryVersionNumbers(r.story_id) :
                          n < r.version.version_number
                /\ \A w2 \in Workers \ {w} :
                      (inflight[w2].busy /\ inflight[w2].story_id = r.story_id
                       /\ inflight[w2].version.version_number = r.version.version_number)
                      => inflight'[w2].version.version_number
                             \in {versions'[i].version_number :
                                     i \in {j \in 1..Len(versions') :
                                              versions'[j].user_story_id = r.story_id}} ]_vars

\* two version rows of one story with the same version_number
C15_Witness ==
    \E i, j \in 1..Len(versions) :
        /\ i < j
        /\ versions[i].user_story_id = versions[j].user_story_id
        /\ versions[i].version_number = versions[j].version_number

\* the file formats the specification lists as accepted
ListedFormats ==
    ALLOWED_EXTENSIONS \cup {<<".","d","o","c">>, <<".","x","l","s">>}

(* C18: an upload within the size ceiling is not rejected with 400 for its
   file type when its extension is .pdf, .docx, .doc, .txt, .md, .xlsx, .xls
   or .csv, in any letter case. *)
C18_ListedFormatsAccepted ==
    ( /\ resp.op = "upload"
      /\ resp.parent # 0 /\ ProjectOwner[resp.parent] = resp.caller
      /\ resp.arg.size <= MAX_FILE_SIZE
      /\ lower(splitext_ext(resp.arg.filename)) \in ListedFormats )
    => resp.status # 400

(* C10: a reprocess request answered 200 leaves the document, in the state
   the handler returns in, with status "processing", embeddings_generated
   false and no processing_error, whatever the row held before; when the row
   was already in that condition (a reprocess directly after a reprocess) the
   request leaves the row exactly as it was. *)
C10_ReprocessIdempotent ==
    [][ (Idle /\ resp'.op = "reprocess" /\ resp'.status = 200) =>
           /\ docs'[resp'.target].status = "processing"
           /\ docs'[resp'.target].embeddings_generated = FALSE
           /\ docs'[resp'.target].processing_error = None
           /\ ( /\ docs[resp'.target].status = "processing"
                /\ docs[resp'.target].embeddings_generated = FALSE
                /\ docs[resp'.target].processing_error = None )
              => docs'[resp'.target] = docs[resp'.target] ]_vars

\* a reprocess of a document that an earlier run had chunked and an earlier
\* reprocess had reset: both reprocess tasks are still queued
C10_Witness ==
    /\ resp.op = "reprocess" /\ resp.status = 200
    /\ resp.arg.status = "processing" /\ resp.arg.chunk_count > 0
    /\ Len(tasks) = MaxTasks
    /\ \A i \in 1..Len(tasks) : tasks[i].pc = "queued" /\ tasks[i].id = resp.target

\* the chunk rows of a document
ChunkRows(document_id) == {i \in 1..Len(chunks) : chunks[i].document_id = document_id}

(* C25: once all indexing runs have ended, after any sequence of uploads,
   runs and reprocess requests, the chunk rows of each document have pairwise
   distinct chunk_index values that form 0..n-1 and their number n is the
   document's chunk_count: no chunk of an earlier run remains beside those of
   a later run. *)
C25_ChunkIndexesFormRange ==
    tasks = <<>> =>
        \A d \in 1..Len(docs) :
            DocumentExists(d) =>
                /\ Cardinality(ChunkRows(d)) = docs[d].chunk_count
                /\ {chunks[i].chunk_index : i \in ChunkRows(d)} = 0..(docs[d].chunk_count - 1)
                /\ \A i, j \in ChunkRows(d) :
                      chunks[i].chunk_index = chunks[j].chunk_index => i = j

(* C26: DELETE /documents/{id} is all-or-nothing for the stored file and the
   row: a delete whose removal of the row fails leaves the file on disk. *)
C26_FailedDeleteKeepsFile ==
    [][ ( /\ Idle
          /\ resp'.op = "delete_document"
          /\ DocumentExists(resp'.target)
          /\ docs'[resp'.target].present )
        => files' = files ]_vars

(* C27: in every committed state, also between the commits of a running
   indexing task and with reprocess requests in between, a document with
   status "processed" has embeddings_generated = true. *)
C27_ProcessedHasEmbeddings ==
    \A d \in 1..Len(docs) :
        (DocumentExists(d) /\ docs[d].status = "processed") => docs[d].embeddings_generated

----------------------------------------------------------------------------
(* UserStoryAgent: the LangGraph workflow and its entry point *)

\* what a caller can pass as requirements: a text, or no text at all
Requirements == {"users sign in with email", None}
\* how a model call of a stage can end
LLMOutcomes == {"json", "text", "raised"}
RetrieveOutcomes == {"documents", "nothing", "raised"}
ExtractOutcomes == {"entities", "nothing", "raised"}
\* llm_service.generate_user_story: the text parsed as JSON (an object with
\* stories, an object without, an empty value, a value that is not an object,
\* an object whose "metadata" is null), did not parse, or the call raised
GenerateOutcomes ==
    {"parsed", "parsed without stories", "parsed empty", "parsed not an object",
     "parsed metadata null", "unparsed", "raised"}

\* result["success"] of the LLM service: json.loads accepted the text
ParsedResponses ==
    {"parsed", "parsed without stories", "parsed empty", "parsed not an object",
     "parsed metadata null"}

EdgesSkippingQualityCheck ==
    [analyze_requirements |-> "retrieve_context", retrieve_context |-> "extract_kg_entities",
     extract_kg_entities |-> "generate_stories", generate_stories |-> "finalize_results",
     quality_check |-> "finalize_results", finalize_results |-> "END"]

\* set_entry_point and add_edge of _build_workflow
Edges ==
    [analyze_requirements |-> "retrieve_context", retrieve_context |-> "extract_kg_entities",
     extract_kg_entities |-> "generate_stories", generate_stories |-> "quality_check",
     quality_check |-> "finalize_results", finalize_results |-> "END"]
EntryPoint == "analyze_requirements"

\* dict.update
Update(d, u) == [k \in DOMAIN d \cup DOMAIN u |-> IF k \in DOMAIN u THEN u[k] ELSE d[k]]

\* UserStoryState(...) as generate_user_stories builds it
InitialState(requirements) ==
    [requirements |-> requirements,
     messages |-> <<"Generate user stories for: ...">>,
     current_step |-> "initialize",
     analysis_complete |-> FALSE, context_retrieved |-> FALSE,
     stories_generated |-> FALSE, quality_checked |-> FALSE,
     requirements_analysis |-> None, retrieved_context |-> <<>>,
     generated_stories |-> <<>>, quality_scores |-> "{}",
     knowledge_graph_entities |-> <<>>,
     generation_metadata |-> [workflow_version |-> "1.0"],
     errors |-> <<>>, warnings |-> <<>>]

\* a stage has run: it is noted with how its call ended, and the edge out of
\* it is taken
Ran(stage, outcome) == Append(ran, [stage |-> stage, outcome |-> outcome])

\* the entry point up to the try block: requirements[:100] needs a text
agent_generate_user_stories(requirements) ==
    /\ pc = "idle"
    /\ IF requirements = None
       THEN /\ pc' = "raised"
            /\ result' = [exception |-> "TypeError"]
            /\ UNCHANGED wf
       ELSE /\ pc' = "ainvoke"
            /\ wf' = InitialState(requirements)
            /\ UNCHANGED result
    /\ UNCHANGED <<ran, notAgent>>

\* self.app.ainvoke(initial_state): the graph starts at its entry point, or
\* the invocation itself fails and the except branch builds the result
ainvoke(fails) ==
    /\ pc = "ainvoke"
    /\ IF fails
       THEN /\ pc' = "returned"
            /\ result' = [success |-> FALSE, user_stories |-> <<>>,
                          requirements_analysis |-> None, quality_scores |-> "{}",
                          context_documents |-> <<>>, knowledge_graph_entities |-> <<>>,
                          metadata |-> InitialState(wf.requirements).generation_metadata,
                          messages |-> <<"Workflow failed">>,
                          errors |-> <<"Workflow execution failed">>,
                          warnings |-> <<>>]
       ELSE /\ pc' = EntryPoint
            /\ UNCHANGED result
    /\ UNCHANGED <<wf, ran, notAgent>>

analyze_requirements(outcome) ==
    /\ pc = "analyze_requirements"
    /\ wf' = [ CASE outcome = "json" ->
                     [wf EXCEPT !.requirements_analysis = "analysis",
                                !.analysis_complete = TRUE,
                                !.messages = Append(@, "Requirements analysis completed")]
                 [] outcome = "text" ->
                     [wf EXCEPT !.requirements_analysis = "raw_analysis",
                                !.analysis_complete = TRUE,
                                !.warnings = Append(@, "Requirements analysis returned non-JSON format")]
                 [] OTHER ->
                     [wf EXCEPT !.errors = Append(@, "Requirements analysis failed"),
                                !.analysis_complete = FALSE]
             EXCEPT !.current_step = "analyze_requirements" ]
    /\ ran' = Ran("analyze_requirements", outcome)
    /\ pc' = Edges["analyze_requirements"]
    /\ UNCHANGED <<result, notAgent>>

retrieve_context(outcome) ==
    /\ pc = "retrieve_context"
    /\ wf' = [ IF outcome # "raised"
               THEN [wf EXCEPT !.retrieved_context =
                                   IF outcome = "documents" THEN <<"document">> ELSE <<>>,
                               !.context_retrieved = TRUE,
                               !.messages = Append(@, "Retrieved relevant context documents")]
               ELSE [wf EXCEPT !.errors = Append(@, "Context retrieval failed"),
                               !.context_retrieved = FALSE,
                               !.retrieved_context = <<>>]
             EXCEPT !.current_step = "retrieve_context" ]
    /\ ran' = Ran("retrieve_context", outcome)
    /\ pc' = Edges["retrieve_context"]
    /\ UNCHANGED <<result, notAgent>>

extract_kg_entities(outcome) ==
    /\ pc = "extract_kg_entities"
    /\ wf' = [ IF outcome # "raised"
               THEN [wf EXCEPT !.knowledge_graph_entities =
                                   IF outcome = "entities" THEN <<"entity">> ELSE <<>>,
                               !.messages = Append(@, "Extracted knowledge graph entities")]
               ELSE [wf EXCEPT !.errors = Append(@, "Knowledge graph entity extraction failed"),
                               !.knowledge_graph_entities = <<>>]
             EXCEPT !.current_step = "extract_kg_entities" ]
    /\ ran' = Ran("extract_kg_entities", outcome)
    /\ pc' = Edges["extract_kg_entities"]
    /\ UNCHANGED <<result, notAgent>>

\* the if branch needs result["success"] and a truthy result["parsed_stories"];
\* stories_data.get raises on a value that is not an object, and the metadata
\* update raises on "metadata": null after the stories have been stored: the
\* except branch then empties them again
generate_stories(outcome) ==
    /\ pc = "generate_stories"
    /\ wf' = [ CASE outcome \in {"parsed", "parsed without stories"} ->
                     [wf EXCEPT !.generated_stories =
                                    IF outcome = "parsed" THEN <<"story">> ELSE <<>>,
                                !.stories_generated = TRUE,
                                !.messages = Append(@, "Generated user stories"),
                                !.generation_metadata =
                                    Update(@, [llm_provider |-> "provider"])]
                 [] outcome = "parsed metadata null" ->
                     [wf EXCEPT !.messages = Append(@, "Generated user stories"),
                                !.errors = Append(@, "Story generation failed"),
                                !.generated_stories = <<>>,
                                !.stories_generated = FALSE]
                 [] OTHER ->
                     [wf EXCEPT !.generated_stories = <<>>,
                                !.stories_generated = FALSE,
                                !.errors = Append(@, "Story generation failed")]
             EXCEPT !.current_step = "generate_stories" ]
    /\ ran' = Ran("generate_stories", outcome)
    /\ pc' = Edges["generate_stories"]
    /\ UNCHANGED <<result, notAgent>>

\* without generated stories the stage returns early, before any model call
\* and without setting current_step
quality_check(outcome) ==
    /\ pc = "quality_check"
    /\ IF wf.generated_stories = <<>>
       THEN /\ outcome = "json"
            /\ wf' = [wf EXCEPT !.quality_scores = "overall_score 0",
                                !.quality_checked = TRUE]
            /\ ran' = Ran("quality_check", "skipped")
       ELSE /\ wf' = [ CASE outcome = "json" ->
                            [wf EXCEPT !.quality_scores = "quality data",
                                       !.quality_checked = TRUE,
                                       !.messages = Append(@, "Quality check completed")]
                         [] outcome = "text" ->
                            [wf EXCEPT !.quality_scores = "raw_feedback",
                                       !.quality_checked = TRUE,
                                       !.warnings = Append(@, "Quality check returned non-JSON format")]
                         [] OTHER ->
                            [wf EXCEPT !.errors = Append(@, "Quality check failed"),
                                       !.quality_scores = "{}",
                                       !.quality_checked = FALSE]
                     EXCEPT !.current_step = "quality_check" ]
            /\ ran' = Ran("quality_check", outcome)
    /\ pc' = Edges["quality_check"]
    /\ UNCHANGED <<result, notAgent>>

finalize_results ==
    /\ pc = "finalize_results"
    /\ wf' = [wf EXCEPT !.generation_metadata =
                            Update(@, [workflow_completed |-> TRUE,
                                       total_errors |-> Len(wf.errors),
                                       total_warnings |-> Len(wf.warnings)]),
                        !.messages = Append(@, "User story generation workflow completed"),
                        !.current_step = "finalize_results"]
    /\ ran' = Ran("finalize_results", "done")
    /\ pc' = Edges["finalize_results"]
    /\ UNCHANGED <<result, notAgent>>

\* ainvoke has returned final_state: package the results
package_results ==
    /\ pc = "END"
    /\ result' = [success |-> wf.stories_generated,
                  user_stories |-> wf.generated_stories,
                  requirements_analysis |-> wf.requirements_analysis,
                  quality_scores |-> wf.quality_scores,
                  context_documents |-> wf.retrieved_context,
                  knowledge_graph_entities |-> wf.knowledge_graph_entities,
                  metadata |-> wf.generation_metadata,
                  messages |-> wf.messages,
                  errors |-> wf.errors,
                  warnings |-> wf.warnings]
    /\ pc' = "returned"
    /\ UNCHANGED <<wf, ran, notAgent>>

NextAgent ==
    \/ \E r \in Requirements : agent_generate_user_stories(r)
    \/ \E fails \in BOOLEAN : ainvoke(fails)
    \/ \E o \in LLMOutcomes : analyze_requirements(o)
    \/ \E o \in RetrieveOutcomes : retrieve_context(o)
    \/ \E o \in ExtractOutcomes : extract_kg_entities(o)
    \/ \E o \in GenerateOutcomes : generate_stories(o)
    \/ \E o \in LLMOutcomes : quality_check(o)
    \/ finalize_results
    \/ package_results

SpecAgent == InitApi /\ [][NextAgent]_vars

\* every model call of a stage returns or raises, and the event loop keeps
\* running the coroutine until it has returned
SpecAgentLive == SpecAgent /\ WF_vars(NextAgent)

StageOrder ==
    <<"analyze_requirements", "retrieve_context", "extract_kg_entities",
      "generate_stories", "quality_check", "finalize_results">>
StagesRun == [i \in 1..Len(ran) |-> ran[i].stage]
WorkflowCompleted ==
    /\ "workflow_completed" \in DOMAIN wf.generation_metadata
    /\ wf.generation_metadata["workflow_completed"]

(* C4: whichever stages fail, the stages a run has executed are always an
   initial part of analyze_requirements, retrieve_context,
   extract_kg_entities, generate_stories, quality_check, finalize_results
   (each once, in that order); when the graph has reached END all six have run
   and the metadata is stamped workflow_completed; and a run that has entered
   its first stage always gets there. *)
C4_SixStagesInOrder ==
    /\ [](StagesRun = SubSeq(StageOrder, 1, Len(ran)))
    /\ [](pc = "END" => (StagesRun = StageOrder /\ WorkflowCompleted))
    /\ (pc = EntryPoint) ~> (pc = "END" /\ StagesRun = StageOrder /\ WorkflowCompleted)

\* a run in which analysis, retrieval, entity extraction and the quality check
\* all failed has reached END
C4_Witness ==
    /\ pc = "END" /\ StagesRun = StageOrder /\ WorkflowCompleted
    /\ Len(wf.errors) = 4

\* how the generate-stories stage of the finished call ended, "" if it never ran
GenerateOutcome ==
    LET at == {i \in 1..Len(ran) : ran[i].stage = "generate_stories"}
    IN  IF at = {} THEN "" ELSE ran[CHOOSE i \in at : TRUE].outcome

(* C16: the success flag of the agent's result is true exactly when the
   generate-stories stage obtained a successfully parsed model response,
   whatever the other stages did; when success is false, user_stories is empty
   and errors is not. *)
C16_SuccessIffStoriesParsed ==
    pc = "returned" =>
        /\ result.success <=> (GenerateOutcome \in ParsedResponses)
        /\ ~result.success => (result.user_stories = <<>> /\ result.errors # <<>>)

ResultKeys ==
    {"success", "user_stories", "requirements_analysis", "quality_scores",
     "context_documents", "knowledge_graph_entities", "metadata", "messages",
     "errors", "warnings"}

(* C5: a call of UserStoryAgent.generate_user_stories never ends by raising:
   it ends by returning a result with the ten keys success, user_stories,
   requirements_analysis, quality_scores, context_documents,
   knowledge_graph_entities, metadata, messages, errors and warnings, and the
   errors list is non-empty when the analyze-requirements call raised. *)
C5_AgentNeverRaises ==
    /\ pc # "raised"
    /\ pc = "returned" =>
          /\ DOMAIN result = ResultKeys
          /\ (\E i \in 1..Len(ran) : ran[i].stage = "analyze_requirements"
                                     /\ ran[i].outcome = "raised")
                => result.errors # <<>>

\* the step in which the extract-knowledge-graph-entities stage fails
ExtractionFails ==
    /\ pc = "extract_kg_entities"
    /\ Len(ran') = Len(ran) + 1
    /\ ran'[Len(ran')].stage = "extract_kg_entities"
    /\ ran'[Len(ran')].outcome = "raised"

(* C24: when the extract-knowledge-graph-entities stage fails,
   knowledge_graph_entities is set to the empty list, the failure is recorded
   in the warnings list while the errors list does not grow, and the workflow
   goes on to generate_stories. *)
C24_ExtractionFailureIsWarning ==
    [][ExtractionFails =>
          /\ wf'.knowledge_graph_entities = <<>>
          /\ Len(wf'.warnings) = Len(wf.warnings) + 1
          /\ wf'.errors = wf.errors
          /\ pc' = "generate_stories"]_vars

----------------------------------------------------------------------------
(* knowledge graph service: entity extraction *)

\* values of the parsed JSON; numbers are kept in hundredths
Absent == [t |-> "absent", s |-> "", n |-> 0]
JNull == [t |-> "null", s |-> "", n |-> 0]
JNaN == [t |-> "nan", s |-> "", n |-> 0]
JStr(x) == [t |-> "str", s |-> x, n |-> 0]
JNum(x) == [t |-> "number", s |-> "", n |-> x]
JBool(b) == [t |-> "bool", s |-> "", n |-> IF b THEN 100 ELSE 0]

\* bool(v)
Truthy(v) ==
    CASE v.t = "str" -> v.s # ""
      [] v.t = "number" -> v.n # 0
      [] v.t = "bool" -> v.n # 0
      [] v.t = "nan" -> TRUE
      [] OTHER -> FALSE

\* isinstance(v, (int, float)): bool is a subclass of int, NaN is a float
IsIntOrFloat(v) == v.t \in {"number", "bool", "nan"}

\* v < 0 and v > 1; every comparison with NaN is false
LessThanZero(v) == v.t # "nan" /\ v.n < 0
GreaterThanOne(v) == v.t # "nan" /\ v.n > 100

EntityType ==
    {"project", "requirement", "feature", "user_story", "stakeholder", "business_rule",
     "dependency", "risk", "persona", "system", "process"}

required_fields == <<"name", "type", "description">>

\* a JSON object with the keys whose value is given
Obj(name, type, description, confidence) ==
    LET given == [k \in {"name", "type", "description", "confidence"} |->
                     CASE k = "name" -> name
                       [] k = "type" -> type
                       [] k = "description" -> description
                       [] OTHER -> confidence]
        keys == {k \in DOMAIN given : given[k] # Absent}
    IN  [kind |-> "object", fields |-> [k \in keys |-> given[k]]]

NameValues == {Absent, JStr(""), JStr("Login")}
TypeValues == {Absent, JNull, JStr("feature"), JStr("widget")}
DescriptionValues == {Absent, JStr("sign in")}
ConfidenceValues ==
    {Absent, JNull, JStr("high"), JBool(TRUE), JNaN,
     JNum(-1), JNum(0), JNum(95), JNum(101)}

\* what the model can put into the JSON array: objects, a string, a number
Candidates ==
    { Obj(n, t, d, c) : n \in NameValues, t \in TypeValues,
                        d \in DescriptionValues, c \in ConfidenceValues }
    \cup {[kind |-> "string", fields |-> <<>>], [kind |-> "number", fields |-> <<>>]}

\* llm_service.generate_text and json.loads: the call raises, the text is not
\* JSON, the JSON is not an array, or it is an array of candidates
ExtractionResults ==
    {[kind |-> "raises", items |-> <<>>], [kind |-> "text", items |-> <<>>],
     [kind |-> "json_object", items |-> <<>>]}
    \cup {[kind |-> "json_list", items |-> <<>>]}
    \cup {[kind |-> "json_list", items |-> <<c>>] : c \in Candidates}
    \cup {[kind |-> "json_list", items |-> <<c, d>>] : c \in Candidates, d \in Candidates}


SourceTextLen == 200

EntityTexts ==
    {"Users sign in",
     "The system shall let a registered user sign in with a username and a password. The system shall let a registered user sign in with a username and a password. The system shall let a registered user sign in with a username and a password."}

\* the required-field loop and the type check of _validate_entity
HasRequiredFields(fields) ==
    \A k \in 1..Len(required_fields) :
        required_fields[k] \in DOMAIN fields /\ Truthy(fields[required_fields[k]])

TypeIsValid(fields) == fields["type"] \in {JStr(v) : v \in EntityType}

\* _validate_entity's return value for a JSON object
validate_entity(fields) == HasRequiredFields(fields) /\ TypeIsValid(fields)

\* the object as _validate_entity leaves it when it returns True: confidence is
\* read with a default of 0.5 and written only when the value read is rejected
after_validation(fields) ==
    LET confidence == IF "confidence" \in DOMAIN fields
                      THEN fields["confidence"] ELSE JNum(50)
    IN  IF ~IsIntOrFloat(confidence) \/ LessThanZero(confidence)
           \/ GreaterThanOne(confidence)
        THEN [k \in DOMAIN fields \cup {"confidence"} |->
                 IF k = "confidence" THEN JNum(50) ELSE fields[k]]
        ELSE fields

\* text[:200] + "..." if len(text) > 200 else text
source_text(text) ==
    IF Len(text) > SourceTextLen THEN SubSeq(text, 1, SourceTextLen) \o "..." ELSE text

\* the three keys the loop adds to a validated entity
enrich(fields, text, project_id) ==
    [k \in DOMAIN fields \cup {"project_id", "extracted_at", "source_text"} |->
        CASE k = "project_id" -> JNum(100 * project_id)
          [] k = "extracted_at" -> JNum(100 * now)
          [] k = "source_text" -> JStr(source_text(text))
          [] OTHER -> fields[k]]

\* "name" not in entity: a string item has no such substring and is dropped, a
\* number item raises TypeError, which the outer except turns into []
Validated(item) == item.kind = "object" /\ validate_entity(item.fields)

entities_of(text, project_id, llm) ==
    IF llm.kind # "json_list" THEN <<>>
    ELSE IF \E k \in 1..Len(llm.items) : llm.items[k].kind = "number" THEN <<>>
    ELSE LET kept == SelectSeq(llm.items, Validated)
         IN  [k \in 1..Len(kept) |->
                 enrich(after_validation(kept[k].fields), text, project_id)]

\* KnowledgeGraphService.extract_entities_from_text; a behaviour follows one call
extract_entities_from_text(text, project_id, llm) ==
    /\ call = NoCall
    /\ call' = [fn |-> "extract_entities_from_text", text |-> text,
                project_id |-> project_id, llm |-> llm]
    /\ returned' = entities_of(text, project_id, llm)
    /\ UNCHANGED notService

NextEntities ==
    /\ ServiceIdle
    /\ \E text \in EntityTexts, p \in ProjectIds, llm \in ExtractionResults :
          extract_entities_from_text(text, p, llm)

SpecEntities == InitApi /\ [][NextEntities]_vars

\* a confidence that is a number within [0,1]
ConfidenceInRange(v) == v.t = "number" /\ v.n >= 0 /\ v.n <= 100

(* C12: every entity returned by extract_entities_from_text has a non-empty
   name, type and description, an allow-listed type and a numeric confidence
   within [0,1]; candidates with a missing field or a foreign type are dropped,
   and a missing, non-numeric or out-of-range confidence is replaced by 0.5
   without dropping the entity. *)
C12_ReturnedEntitiesValid ==
    call.fn = "extract_entities_from_text" =>
        /\ \A k \in 1..Len(returned) :
              LET e == returned[k] IN
              /\ \A f \in {"name", "type", "description"} :
                    f \in DOMAIN e /\ e[f].t = "str" /\ e[f].s # ""
              /\ e["type"].s \in EntityType
              /\ "confidence" \in DOMAIN e
              /\ ConfidenceInRange(e["confidence"])
        /\ (call.llm.kind = "json_list"
            /\ \A k \in 1..Len(call.llm.items) : call.llm.items[k].kind = "object") =>
              LET kept == SelectSeq(call.llm.items, Validated) IN
              /\ Len(returned) = Len(kept)
              /\ \A k \in 1..Len(kept) :
                    LET c == kept[k].fields IN
                    returned[k]["confidence"] =
                        IF "confidence" \in DOMAIN c /\ ConfidenceInRange(c["confidence"])
                        THEN c["confidence"] ELSE JNum(50)


----------------------------------------------------------------------------
(* RAG service: retrieval *)

MaxResults == 3

\* settings; scores and thresholds are kept in hundredths
TOP_K_RETRIEVAL == 5
SIMILARITY_THRESHOLD == 70

\* an optional argument: the caller's value, or None
NotGiven == [given |-> FALSE, v |-> 0]
Given(v) == [given |-> TRUE, v |-> v]

Scores == {30, 60, 70, 90}
KArgs == {NotGiven, Given(0), Given(1), Given(2)}
ThresholdArgs == {NotGiven, Given(0), Given(50), Given(70), Given(100)}

\* what the vector store holds for the project, best match first
Indexes == UNION {[1..n -> Scores] : n \in 0..MaxResults}

\* the store's similarity_search_with_score: at most k (document, score) pairs
similarity_search_with_score(index, k) ==
    [i \in 1..Min(k, Len(index)) |-> [doc |-> i, score |-> index[i]]]

\* x or default: None and 0 are both falsy
OrDefault(arg, default) == IF arg.given /\ arg.v # 0 THEN arg.v ELSE default

MeetsThreshold(score, threshold) == score >= threshold

relevant_context(results, threshold) ==
    LET Keep(r) == MeetsThreshold(r.score, threshold)
        kept == SelectSeq(results, Keep)
    IN  [i \in 1..Len(kept) |->
            [content |-> kept[i].doc, similarity_score |-> kept[i].score]]

\* RAGService.retrieve_relevant_context; a failing search is re-raised
retrieve_relevant_context(index, k, similarity_threshold, search_ok) ==
    /\ call = NoCall
    /\ call' = [fn |-> "retrieve_relevant_context", index |-> index, k |-> k,
                similarity_threshold |-> similarity_threshold, raised |-> ~search_ok]
    /\ returned' =
          IF search_ok
          THEN relevant_context(
                   similarity_search_with_score(index, OrDefault(k, TOP_K_RETRIEVAL)),
                   OrDefault(similarity_threshold, SIMILARITY_THRESHOLD))
          ELSE <<>>
    /\ UNCHANGED notService

NextRetrieval ==
    /\ ServiceIdle
    /\ \E index \in Indexes, k \in KArgs, t \in ThresholdArgs, ok \in BOOLEAN :
          retrieve_relevant_context(index, k, t, ok)

SpecRetrieval == InitApi /\ [][NextRetrieval]_vars

(* C13: retrieve_relevant_context returns exactly the search results whose
   score is at least the threshold, in the order of the search (the empty list
   when there is none), where the threshold is the caller's value whenever one
   is supplied, 0 included, and 0.7 only otherwise, and k likewise is the
   caller's value or the default 5. *)
C13_ContextFilteredByThreshold ==
    (call.fn = "retrieve_relevant_context" /\ ~call.raised) =>
        LET threshold == IF call.similarity_threshold.given
                         THEN call.similarity_threshold.v ELSE SIMILARITY_THRESHOLD
            k == IF call.k.given THEN call.k.v ELSE TOP_K_RETRIEVAL
            results == similarity_search_with_score(call.index, k)
            Keep(r) == r.score >= threshold
            kept == SelectSeq(results, Keep)
        IN  /\ Len(returned) = Len(kept)
            /\ \A i \in 1..Len(kept) :
                  /\ returned[i].content = kept[i].doc
                  /\ returned[i].similarity_score = kept[i].score


----------------------------------------------------------------------------
(* text processing: chunking *)

MaxTextLen == 6

\* texts are sequences of characters
TextChars == {"a", "b", ".", "\n"}
ChunkTexts == UNION {[1..n -> TextChars] : n \in 0..MaxTextLen}
ChunkSizes == {2, 3, 4}
Overlaps == {1, 2}

IsSpace(c) == c \in {" ", "\n"}
IsSentenceEnd(c) == c \in {".", "!", "?"}

MinOf(S) == CHOOSE x \in S : \A y \in S : x <= y
MaxOf(S) == CHOOSE x \in S : \A y \in S : x >= y

\* s[-n:] for 0 < n
LastN(s, n) == SubSeq(s, Len(s) - Min(n, Len(s)) + 1, Len(s))

\* str.strip()
strip(s) ==
    LET keep == {i \in 1..Len(s) : ~IsSpace(s[i])}
    IN  IF keep = {} THEN <<>> ELSE SubSeq(s, MinOf(keep), MaxOf(keep))

\* the end of the leftmost match of \n\s*\n that starts at i, or 0
ParagraphBreakEnd(text, i) ==
    LET ends == {j \in (i + 1)..Len(text) :
                    text[j] = "\n" /\ \A m \in (i + 1)..(j - 1) : IsSpace(text[m])}
    IN  IF text[i] = "\n" /\ ends # {} THEN MaxOf(ends) ELSE 0

RECURSIVE split_paragraphs(_)
\* re.split(r'\n\s*\n', text)
split_paragraphs(text) ==
    LET starts == {i \in 1..Len(text) : ParagraphBreakEnd(text, i) # 0}
    IN  IF starts = {} THEN <<text>>
        ELSE LET i == MinOf(starts)
                 j == ParagraphBreakEnd(text, i)
             IN  <<SubSeq(text, 1, i - 1)>>
                 \o split_paragraphs(SubSeq(text, j + 1, Len(text)))

RECURSIVE split_sentences(_)
\* re.split(r'[.!?]+', paragraph)
split_sentences(paragraph) ==
    LET starts == {i \in 1..Len(paragraph) : IsSentenceEnd(paragraph[i])}
    IN  IF starts = {} THEN <<paragraph>>
        ELSE LET i == MinOf(starts)
                 j == MaxOf({m \in i..Len(paragraph) :
                                \A n \in i..m : IsSentenceEnd(paragraph[n])})
             IN  <<SubSeq(paragraph, 1, i - 1)>>
                 \o split_sentences(SubSeq(paragraph, j + 1, Len(paragraph)))

\* chunks.append({...}) of chunk_text_intelligently
Chunk(index, content, type) ==
    [index |-> index, content |-> strip(content), size |-> Len(content), type |-> type]


\* the seed of the next chunk: the tail of the one just saved, a separator and
\* the next piece, or the piece alone when the saved chunk is no longer than
\* the overlap
Seed(saved, sep, piece, overlap) ==
    IF overlap > 0 /\ Len(saved) > overlap
    THEN LastN(saved, overlap) \o sep \o piece
    ELSE piece

RECURSIVE sentence_loop(_, _, _, _, _)
\* for sentence in sentences: ... ; st = [chunks, sentence_chunk, chunk_index]
sentence_loop(sentences, k, st, chunk_size, overlap) ==
    IF k > Len(sentences) THEN st
    ELSE LET sentence == strip(sentences[k])
             sc == st.sentence_chunk
             next ==
                IF sentence = <<>> THEN st
                ELSE IF Len(sc) + Len(sentence) > chunk_size
                THEN IF sc # <<>>
                     THEN [chunks |-> Append(st.chunks,
                                             Chunk(st.chunk_index, sc, "sentence_boundary")),
                           chunk_index |-> st.chunk_index + 1,
                           sentence_chunk |-> Seed(sc, <<" ">>, sentence, overlap)]
                     ELSE [st EXCEPT !.sentence_chunk = sentence]
                ELSE [st EXCEPT !.sentence_chunk =
                                   IF sc # <<>> THEN sc \o <<" ">> \o sentence
                                   ELSE sentence]
         IN  sentence_loop(sentences, k + 1, next, chunk_size, overlap)

\* one pass of "for paragraph in paragraphs";
\* st = [chunks, current_chunk, current_size, chunk_index]
paragraph_step(st, raw, chunk_size, overlap) ==
    LET paragraph == strip(raw)
        paragraph_size == Len(paragraph)
        saved == [st EXCEPT !.chunks = Append(st.chunks,
                                              Chunk(st.chunk_index, st.current_chunk,
                                                    "paragraph_boundary")),
                            !.chunk_index = st.chunk_index + 1]
    IN  IF paragraph = <<>> THEN st
        ELSE IF paragraph_size > chunk_size
        THEN LET st1 == IF st.current_chunk # <<>>
                        THEN [saved EXCEPT !.current_chunk = <<>>, !.current_size = 0]
                        ELSE st
                 r == sentence_loop(split_sentences(paragraph), 1,
                                    [chunks |-> st1.chunks, sentence_chunk |-> <<>>,
                                     chunk_index |-> st1.chunk_index],
                                    chunk_size, overlap)
             IN  [chunks |-> r.chunks, chunk_index |-> r.chunk_index,
                  current_chunk |-> IF r.sentence_chunk # <<>> THEN r.sentence_chunk
                                    ELSE st1.current_chunk,
                  current_size |-> IF r.sentence_chunk # <<>> THEN Len(r.sentence_chunk)
                                   ELSE st1.current_size]
        ELSE IF st.current_size + paragraph_size > chunk_size
        THEN IF st.current_chunk # <<>>
             THEN LET seeded == Seed(st.current_chunk, <<"\n", "\n">>, paragraph, overlap)
                  IN  [saved EXCEPT !.current_chunk = seeded, !.current_size = Len(seeded)]
             ELSE [st EXCEPT !.current_chunk = paragraph, !.current_size = paragraph_size]
        ELSE [st EXCEPT !.current_chunk =
                            IF st.current_chunk # <<>>
                            THEN st.current_chunk \o <<"\n", "\n">> \o paragraph
                            ELSE paragraph,
                        !.current_size = st.current_size + paragraph_size + 2]

RECURSIVE paragraph_loop(_, _, _, _, _)
paragraph_loop(paragraphs, k, st, chunk_size, overlap) ==
    IF k > Len(paragraphs) THEN st
    ELSE paragraph_loop(paragraphs, k + 1,
                        paragraph_step(st, paragraphs[k], chunk_size, overlap),
                        chunk_size, overlap)

\* chunk_text_intelligently(text, chunk_size, overlap): the list of chunks
chunks_of(text, chunk_size, overlap) ==
    IF text = <<>> THEN <<>>
    ELSE LET st == paragraph_loop(split_paragraphs(text), 1,
                                  [chunks |-> <<>>, current_chunk |-> <<>>,
                                   current_size |-> 0, chunk_index |-> 0],
                                  chunk_size, overlap)
         IN  IF st.current_chunk # <<>>
             THEN Append(st.chunks, Chunk(st.chunk_index, st.current_chunk, "final"))
             ELSE st.chunks

chunk_text_intelligently(text, chunk_size, overlap) ==
    /\ call = NoCall
    /\ call' = [fn |-> "chunk_text_intelligently", text |-> text,
                chunk_size |-> chunk_size, overlap |-> overlap]
    /\ returned' = chunks_of(text, chunk_size, overlap)
    /\ UNCHANGED notService

NextChunking ==
    /\ ServiceIdle
    /\ \E text \in ChunkTexts, chunk_size \in ChunkSizes, overlap \in Overlaps :
          chunk_text_intelligently(text, chunk_size, overlap)

SpecChunking == InitApi /\ [][NextChunking]_vars

(* C14: for chunk_text_intelligently with overlap > 0 and a text that yields
   more than one chunk, the first `overlap` characters of every chunk after
   the first equal the last `overlap` characters of the chunk before it, on
   the paragraph path and on the sentence path. *)
C14_ChunksOverlap ==
    (call.fn = "chunk_text_intelligently" /\ call.overlap > 0) =>
        \A i \in 2..Len(returned) :
            Take(returned[i].content, call.overlap)
                = LastN(returned[i - 1].content, call.overlap)


----------------------------------------------------------------------------
(* application: detailed health check *)

\* how a probe's call to its store ends
ProbeOutcomes == {"ok", "raises"}

\* check_postgres_health, check_redis_health, check_neo4j_health: True when
\* the call returns, False when it raises
check_postgres_health(outcome) == outcome = "ok"
check_redis_health(outcome) == outcome = "ok"
check_neo4j_health(outcome) == outcome = "ok"

any_healthy(flags) == \E i \in 1..Len(flags) : flags[i]

\* all([...])
all_healthy(flags) == \A i \in 1..Len(flags) : flags[i]

ServiceStatus(healthy) == IF healthy THEN "healthy" ELSE "unhealthy"

\* GET /health/detailed
detailed_health_check(postgres, redis, neo4j, debug) ==
    LET postgres_healthy == check_postgres_health(postgres)
        redis_healthy == check_redis_health(redis)
        neo4j_healthy == check_neo4j_health(neo4j)
        overall_healthy == all_healthy(<<postgres_healthy, redis_healthy, neo4j_healthy>>)
    IN
    /\ call' = [fn |-> "detailed_health_check", postgres |-> postgres, redis |-> redis,
                neo4j |-> neo4j]
    /\ returned' = [http_status |-> 200,
                    status |-> IF overall_healthy THEN "healthy" ELSE "degraded",
                    timestamp |-> now,
                    services |-> [postgresql |-> ServiceStatus(postgres_healthy),
                                  redis |-> ServiceStatus(redis_healthy),
                                  neo4j |-> ServiceStatus(neo4j_healthy)],
                    configuration |-> [debug_mode |-> debug]]
    /\ UNCHANGED notService

\* the endpoint is polled while time passes and the stores come and go
NextHealth ==
    \/ \E p \in ProbeOutcomes, r \in ProbeOutcomes, n \in ProbeOutcomes, debug \in BOOLEAN :
          detailed_health_check(p, r, n, debug)
    \/ Tick

SpecHealth == InitApi /\ [][NextHealth]_vars

(* C20: GET /health/detailed reports "degraded" if and only if at least one
   of the three store probes is unhealthy and "healthy" if and only if all
   three succeed; a probe that raises counts as unhealthy and the endpoint
   still answers. *)
C20_DegradedIffProbeUnhealthy ==
    call.fn = "detailed_health_check" =>
        LET raised == {x \in {call.postgres, call.redis, call.neo4j} : x = "raises"} IN
        /\ returned.http_status = 200
        /\ returned.status \in {"healthy", "degraded"}
        /\ returned.status = "degraded" <=> raised # {}
        /\ returned.status = "healthy" <=> raised = {}
        /\ returned.services.postgresql = "unhealthy" <=> call.postgres = "raises"
        /\ returned.services.redis = "unhealthy" <=> call.redis = "raises"
        /\ returned.services.neo4j = "unhealthy" <=> call.neo4j = "raises"

\* one probe raised, the other two succeeded, and the endpoint answered
C20_Witness ==
    /\ call.fn = "detailed_health_check"
    /\ call.redis = "raises" /\ call.postgres = "ok" /\ call.neo4j = "ok"
    /\ returned.status = "degraded"


----------------------------------------------------------------------------
(* LLM service: providers and their usage statistics *)

\* None and "" are both falsy in `provider_name or ...` and `if model_name and ...`
NoneStr == ""
ProviderArgs == {NoneStr, "openai", "ollama", "azure_openai"}
ModelArgs == {NoneStr, "gpt-4", "gpt-3.5-turbo"}
PromptTokens == {1, 2}
CompletionTokens == {1}
GenerationOutcomes == {"ok", "raises"}

\* OpenAIProvider.pricing per 1000 tokens, in millionths of a dollar per token
PromptPrice(model_name) ==
    CASE model_name = "gpt-4" -> 30
      [] model_name = "gpt-4-32k" -> 60
      [] model_name = "gpt-3.5-turbo" -> 2
      [] model_name = "gpt-3.5-turbo-16k" -> 3
      [] OTHER -> 2
CompletionPrice(model_name) ==
    CASE model_name = "gpt-4" -> 60
      [] model_name = "gpt-4-32k" -> 120
      [] model_name = "gpt-3.5-turbo" -> 2
      [] model_name = "gpt-3.5-turbo-16k" -> 4
      [] OTHER -> 2

\* the cost a provider computes for one call
call_cost(provider, prompt_tokens, completion_tokens) ==
    IF provider.provider = "openai"
    THEN prompt_tokens * PromptPrice(provider.model_name)
           + completion_tokens * CompletionPrice(provider.model_name)
    ELSE 0

\* LLMService.get_provider: the instance a call runs on.  cached tells whether
\* it is the instance kept in self.providers
fresh_provider(provider_name, model_name) ==
    [ok |-> TRUE, cached |-> FALSE, instance |-> BaseLLMProvider(provider_name, model_name)]
cached_provider(provider_name, model_name) ==
    [ok |-> TRUE, cached |-> TRUE, instance |-> llm_service.providers[provider_name]]
get_provider(provider_arg, model_name) ==
    LET provider_name == IF provider_arg # NoneStr THEN provider_arg ELSE DEFAULT_LLM_PROVIDER IN
    IF provider_name \notin DOMAIN llm_service.providers
    THEN [ok |-> FALSE, error |-> "ValueError"]
    ELSE IF model_name # NoneStr /\ model_name # llm_service.providers[provider_name].model_name
         THEN fresh_provider(provider_name, model_name)
         ELSE cached_provider(provider_name, model_name)

\* BaseLLMProvider.update_usage_stats
update_usage_stats(usage_stats, token_usage, cost) ==
    [total_tokens |-> usage_stats.total_tokens + token_usage.total_tokens,
     prompt_tokens |-> usage_stats.prompt_tokens + token_usage.prompt_tokens,
     completion_tokens |-> usage_stats.completion_tokens + token_usage.completion_tokens,
     total_cost |-> usage_stats.total_cost + cost,
     requests_count |-> usage_stats.requests_count + 1]

GenerationsStarted ==
    Len(llm_service.results) + llm_service.raised
        + Cardinality({c \in Callers : llm_service.pending[c].busy})

\* LLMService.generate_text / generate_chat up to the provider's call of its
\* client: the provider is looked up and the request is sent
generate_text_begin(c, provider_arg, model_name) ==
    LET got == get_provider(provider_arg, model_name) IN
    /\ ~llm_service.pending[c].busy
    /\ GenerationsStarted < MaxGenerations
    /\ llm_service' = IF got.ok
              THEN [llm_service EXCEPT !.pending[c] = [busy |-> TRUE, cached |-> got.cached,
                                              instance |-> got.instance]]
              ELSE [llm_service EXCEPT !.raised = @ + 1]
    /\ UNCHANGED <<coreVars, graph, connections, api_keys>>

\* the client's answer arrives: the provider updates the counters of the
\* instance the call runs on and the result goes back to the caller; when the
\* client raises, the exception is logged and re-raised
generate_text_end(c, outcome, prompt_tokens, completion_tokens) ==
    LET p == llm_service.pending[c]
        name == p.instance.provider
        token_usage == [total_tokens |-> prompt_tokens + completion_tokens,
                        prompt_tokens |-> prompt_tokens,
                        completion_tokens |-> completion_tokens]
        cost == call_cost(p.instance, prompt_tokens, completion_tokens)
        generated == [provider |-> name, model |-> p.instance.model_name,
                      usage |-> token_usage, cost |-> cost]
    IN
    /\ p.busy
    /\ llm_service' = IF outcome = "raises"
              THEN [llm_service EXCEPT !.pending[c] = NoGeneration, !.raised = @ + 1]
              ELSE IF p.cached
                   THEN [llm_service EXCEPT !.pending[c] = NoGeneration,
                                    !.results = Append(@, generated),
                                    !.providers[name].usage_stats =
                                        update_usage_stats(@, token_usage, cost)]
                   ELSE [llm_service EXCEPT !.pending[c] = NoGeneration,
                                    !.results = Append(@, generated)]
    /\ UNCHANGED <<coreVars, graph, connections, api_keys>>

\* LLMService.get_usage_stats(provider_name)
get_usage_stats(provider_name) == llm_service.providers[provider_name].usage_stats

NextUsage ==
    \/ \E c \in Callers, p \in ProviderArgs, m \in ModelArgs : generate_text_begin(c, p, m)
    \/ \E c \in Callers, o \in GenerationOutcomes, pt \in PromptTokens,
          ct \in CompletionTokens : generate_text_end(c, o, pt, ct)

SpecUsage == InitApi /\ [][NextUsage]_vars

\* the sum of Field over the results returned for one provider
RECURSIVE SumTo(_, _)
SumTo(f, n) == IF n = 0 THEN 0 ELSE f[n] + SumTo(f, n - 1)
SumOver(results, provider_name, Field(_)) ==
    SumTo([i \in 1..Len(results) |->
              IF results[i].provider = provider_name THEN Field(results[i]) ELSE 0],
          Len(results))

(* C21: the usage statistics reported for a provider are the sums over all
   successful generation calls served for that provider: requests_count is
   their number and the token and cost totals are the summed per-call usage,
   also for calls that ask for another model than the cached instance's and
   for calls that overlap; a failed call changes no counter. *)
C21_UsageStatsEqualSums ==
    \A name \in ProviderNames :
        LET stats == get_usage_stats(name)
            One(r) == 1
            Total(r) == r.usage.total_tokens
            Prompt(r) == r.usage.prompt_tokens
            Completion(r) == r.usage.completion_tokens
            Cost(r) == r.cost
        IN
        /\ stats.requests_count = SumOver(llm_service.results, name, One)
        /\ stats.total_tokens = SumOver(llm_service.results, name, Total)
        /\ stats.prompt_tokens = SumOver(llm_service.results, name, Prompt)
        /\ stats.completion_tokens = SumOver(llm_service.results, name, Completion)
        /\ stats.total_cost = SumOver(llm_service.results, name, Cost)


----------------------------------------------------------------------------
(* knowledge graph service: building a project's graph *)

EntityNames == {"Login", "Admin"}
BuildTypes == {"feature", "actor"}
SourceIds == {1, 2}
RelationshipType == {"BELONGS_TO", "DEPENDS_ON", "IMPLEMENTS", "INVOLVES", "CONFLICTS_WITH",
                     "DERIVES_FROM", "RELATES_TO", "BLOCKS", "ENABLES", "VALIDATES"}

\* what extract_entities_from_text returned for the documents, tagged with the
\* document it came from, in the order of the documents
ExtractedEntity == [name : EntityNames, type : BuildTypes, source_document_id : SourceIds]
ExtractedLists ==
    {l \in UNION {[1..n -> ExtractedEntity] : n \in 0..MaxExtracted} :
        \A i \in 1..(Len(l) - 1) : l[i].source_document_id <= l[i + 1].source_document_id}

\* the list the model answers with when asked for the relationships of one source
ExtractedRelationship ==
    [source_entity : EntityNames, target_entity : EntityNames, relationship_type : {"DEPENDS_ON"}]
RelationshipAnswers == {<<>>} \cup {<<r>> : r \in ExtractedRelationship}

notGraphCall == <<now, users, sessions, blacklist, issued, authResp, held, tokenRes,
                  store, resp, agentVars, inflight, llm_service, connections, api_keys>>

\* key = f"{entity['name']}_{entity['type']}"
EntityKey(entity) == <<entity.name, entity.type>>

\* the first entity of every key, in order of appearance
RECURSIVE unique_entities(_, _)
unique_entities(all_entities, kept) ==
    IF all_entities = <<>> THEN kept
    ELSE LET entity == Head(all_entities) IN
         unique_entities(Tail(all_entities),
                         IF \E i \in 1..Len(kept) : EntityKey(kept[i]) = EntityKey(entity)
                         THEN kept
                         ELSE Append(kept, entity))

\* the keys of source_groups in insertion order
RECURSIVE source_keys(_, _)
source_keys(entities, seen) ==
    IF entities = <<>> THEN seen
    ELSE LET k == Head(entities).source_document_id IN
         source_keys(Tail(entities),
                     IF \E i \in 1..Len(seen) : seen[i] = k THEN seen ELSE Append(seen, k))

group_entities(entities, source_id) ==
    LET InGroup(e) == e.source_document_id = source_id IN SelectSeq(entities, InGroup)

\* _validate_relationship: both endpoints are names of the entities offered
\* and the type is one of RelationshipType
validate_relationship(relationship, entities) ==
    /\ \E i \in 1..Len(entities) : entities[i].name = relationship.source_entity
    /\ \E i \in 1..Len(entities) : entities[i].name = relationship.target_entity
    /\ relationship.relationship_type \in RelationshipType

extract_relationships_from_text(answer, entities) ==
    IF Len(entities) < 2 THEN <<>>
    ELSE LET Valid(r) == validate_relationship(r, entities) IN SelectSeq(answer, Valid)

RECURSIVE relationships_of(_, _, _)
relationships_of(keys, final_entities, answers) ==
    IF keys = <<>> THEN <<>>
    ELSE LET group == group_entities(final_entities, Head(keys)) IN
         (IF Len(group) > 1
          THEN extract_relationships_from_text(answers[Head(keys)], group)
          ELSE <<>>)
           \o relationships_of(Tail(keys), final_entities, answers)

\* the loop over final_entities: create_entity writes a node with a fresh id
\* and the id is filed under the entity's name; a create_entity that raises
\* is logged and the loop goes on
RECURSIVE create_entities(_, _, _, _, _)
create_entities(final_entities, i, failing, project_id, acc) ==
    IF i > Len(final_entities) THEN acc
    ELSE LET entity == final_entities[i] IN
         create_entities(final_entities, i + 1, failing, project_id,
            IF i \in failing THEN acc
            ELSE [created_entities |->
                      [n \in DOMAIN acc.created_entities \cup {entity.name} |->
                          IF n = entity.name THEN i ELSE acc.created_entities[n]],
                  nodes |-> acc.nodes \cup {[id |-> i, name |-> entity.name,
                                             type |-> entity.type,
                                             project_id |-> project_id]}])

\* the loop over all_relationships
RECURSIVE create_relationships(_, _, _, _, _)
create_relationships(all_relationships, j, failing, created_entities, acc) ==
    IF j > Len(all_relationships) THEN acc
    ELSE LET relationship == all_relationships[j]
             source_name == relationship.source_entity
             target_name == relationship.target_entity
         IN
         create_relationships(all_relationships, j + 1, failing, created_entities,
            IF /\ source_name \in DOMAIN created_entities
               /\ target_name \in DOMAIN created_entities
               /\ j \notin failing
            THEN [created_relationships |->
                      Append(acc.created_relationships,
                             [source_entity |-> source_name, target_entity |-> target_name,
                              relationship_type |-> relationship.relationship_type,
                              kg_id |-> j]),
                  edges |-> acc.edges \cup {[id |-> j,
                                             source_id |-> created_entities[source_name],
                                             target_id |-> created_entities[target_name],
                                             type |-> relationship.relationship_type]}]
            ELSE acc)

\* KnowledgeGraphService.build_project_knowledge_graph(project_id, documents)
build_project_knowledge_graph(project_id, all_entities, answers, failing_entities, failing_relationships) ==
    LET final_entities == unique_entities(all_entities, <<>>)
        all_relationships ==
            IF Len(final_entities) > 1
            THEN relationships_of(source_keys(final_entities, <<>>), final_entities, answers)
            ELSE <<>>
        entities == create_entities(final_entities, 1, failing_entities, project_id,
                                    [created_entities |-> <<>>, nodes |-> {}])
        relationships == create_relationships(all_relationships, 1, failing_relationships,
                                              entities.created_entities,
                                              [created_relationships |-> <<>>, edges |-> {}])
    IN
    /\ call = NoCall
    /\ call' = [fn |-> "build_project_knowledge_graph", project_id |-> project_id,
                all_entities |-> all_entities, failing_entities |-> failing_entities]
    /\ graph' = [nodes |-> graph.nodes \cup entities.nodes,
                 edges |-> graph.edges \cup relationships.edges]
    /\ returned' = [project_id |-> project_id,
                    entities_created |-> Cardinality(DOMAIN entities.created_entities),
                    relationships_created |-> Len(relationships.created_relationships),
                    entities |-> final_entities,
                    relationships |-> relationships.created_relationships,
                    success |-> TRUE]
    /\ UNCHANGED notGraphCall

NextGraphBuild ==
    /\ ServiceIdle
    /\ \E all_entities \in ExtractedLists, answers \in [SourceIds -> RelationshipAnswers],
          failing_entities \in SUBSET (1..MaxExtracted),
          failing_relationships \in SUBSET (1..MaxRelationships) :
          build_project_knowledge_graph(1, all_entities, answers, failing_entities,
                                        failing_relationships)

SpecGraphBuild == InitApi /\ [][NextGraphBuild]_vars

NodeById(id) == CHOOSE n \in graph.nodes : n.id = id

(* C22: in build_project_knowledge_graph every relationship written to the
   graph store and reported in the result connects two entities that were
   persisted in this build and that carry the names in its source_entity and
   target_entity; a relationship with an endpoint that was not persisted is
   not written; and entities_created is the number of entities written. *)
C22_RelationshipsJoinPersistedEntities ==
    call.fn = "build_project_knowledge_graph" =>
        /\ \A i \in 1..Len(returned.relationships) :
              LET r == returned.relationships[i] IN
              \E e \in graph.edges :
                  /\ e.id = r.kg_id
                  /\ \E n \in graph.nodes : n.id = e.source_id /\ n.name = r.source_entity
                  /\ \E n \in graph.nodes : n.id = e.target_id /\ n.name = r.target_entity
        /\ \A e \in graph.edges :
              \E i \in 1..Len(returned.relationships) : returned.relationships[i].kg_id = e.id
        /\ returned.relationships_created = Cardinality(graph.edges)
        /\ returned.entities_created = Cardinality(graph.nodes)


----------------------------------------------------------------------------
(* application: shutdown *)

CloseOutcomes == {"ok", "raises"}

AfterClose(state, outcome) == IF outcome = "ok" THEN "closed" ELSE state

\* cleanup_connections: the three closes in one try block, in this order; the
\* first one that raises ends the block
cleanup_connections(redis, neo4j, dispose) ==
    LET reached_neo4j == redis = "ok"
        reached_engine == reached_neo4j /\ neo4j = "ok"
        completed == reached_engine /\ dispose = "ok"
    IN
    /\ connections.phase = "serving"
    /\ connections' =
          [phase |-> "stopped",
           redis_client |-> AfterClose(connections.redis_client, redis),
           neo4j_connection |->
               IF reached_neo4j THEN AfterClose(connections.neo4j_connection, neo4j)
               ELSE connections.neo4j_connection,
           engine |->
               IF reached_engine THEN AfterClose(connections.engine, dispose)
               ELSE connections.engine,
           attempted |-> <<"redis_client.close">>
                           \o (IF reached_neo4j THEN <<"neo4j_connection.close">> ELSE <<>>)
                           \o (IF reached_engine THEN <<"engine.dispose">> ELSE <<>>),
           printed |-> IF completed THEN "All database connections closed"
                       ELSE "Error during cleanup"]
    /\ UNCHANGED <<coreVars, llm_service, graph, api_keys>>

\* the application serves health checks until the lifespan context ends and
\* cleanup_connections runs
serve_health_check(p, r, n, debug) ==
    /\ connections.phase = "serving"
    /\ detailed_health_check(p, r, n, debug)

NextLifespan ==
    \/ \E p \in ProbeOutcomes, r \in ProbeOutcomes, n \in ProbeOutcomes, debug \in BOOLEAN :
          serve_health_check(p, r, n, debug)
    \/ Tick
    \/ \E redis \in CloseOutcomes, neo4j \in CloseOutcomes, dispose \in CloseOutcomes :
          cleanup_connections(redis, neo4j, dispose)

SpecLifespan == InitApi /\ [][NextLifespan]_vars

(* C23: on shutdown, closing the cache client, closing the graph driver and
   disposing the relational engine are each attempted even when an earlier
   one of the three raises. *)
C23_EveryCloseAttempted ==
    connections.phase = "stopped" =>
        connections.attempted = <<"redis_client.close", "neo4j_connection.close", "engine.dispose">>


----------------------------------------------------------------------------
(* API keys: creation, deletion and API-key authentication *)

KeyValues == {"k1", "k2"}
Credentials == KeyValues \cup {"k0"}
NoExpiry == -1
ExpiryArgs == {NoExpiry, TickMinutes}

notApiKeys == <<sessions, blacklist, issued, authResp, held, tokenRes, store, resp,
                agentVars, inflight, llm_service, graph, connections>>

\* ApiKey.key is declared unique
ApiKeyInsertAllowed(key) == \A i \in 1..Len(api_keys) : api_keys[i].key # key

NextApiKeyId ==
    IF api_keys = <<>> THEN 1
    ELSE 1 + (CHOOSE m \in {api_keys[i].id : i \in 1..Len(api_keys)} :
                 \A i \in 1..Len(api_keys) : api_keys[i].id <= m)

\* POST /auth/api-keys by an authenticated, active user; key is what
\* create_api_key() drew
create_user_api_key(user_id, key, expires_at) ==
    /\ users[user_id].is_active
    /\ call' = [fn |-> "create_user_api_key", user_id |-> user_id, credential |-> key]
    /\ IF ApiKeyInsertAllowed(key)
       THEN /\ Len(api_keys) < MaxApiKeys
            /\ api_keys' = Append(api_keys, [id |-> NextApiKeyId, key |-> key,
                                             user_id |-> user_id, is_active |-> TRUE,
                                             last_used |-> NoExpiry,
                                             expires_at |-> expires_at])
            /\ returned' = [status |-> 201, user_id |-> user_id]
       ELSE /\ UNCHANGED api_keys
            /\ returned' = [status |-> 500, user_id |-> 0]
    /\ UNCHANGED <<now, users, notApiKeys>>

\* DELETE /auth/api-keys/{api_key_id}
delete_api_key(user_id, api_key_id) ==
    LET found == {i \in 1..Len(api_keys) :
                     api_keys[i].id = api_key_id /\ api_keys[i].user_id = user_id}
    IN
    /\ users[user_id].is_active
    /\ call' = [fn |-> "delete_api_key", user_id |-> user_id, credential |-> ""]
    /\ IF found = {}
       THEN /\ UNCHANGED api_keys
            /\ returned' = [status |-> 404, user_id |-> user_id]
       ELSE /\ api_keys' = RemoveAt(api_keys, CHOOSE i \in found : TRUE)
            /\ returned' = [status |-> 200, user_id |-> user_id]
    /\ UNCHANGED <<now, users, notApiKeys>>

\* is_active of a key or of a user is cleared in the database; no endpoint
\* writes either column
deactivate_api_key(i) ==
    /\ i \in 1..Len(api_keys)
    /\ api_keys[i].is_active
    /\ api_keys' = [api_keys EXCEPT ![i].is_active = FALSE]
    /\ call' = [fn |-> "deactivate", user_id |-> 0, credential |-> ""]
    /\ returned' = NoCall
    /\ UNCHANGED <<now, users, notApiKeys>>

deactivate_user(user_id) ==
    /\ users[user_id].is_active
    /\ users' = [users EXCEPT ![user_id].is_active = FALSE]
    /\ call' = [fn |-> "deactivate", user_id |-> user_id, credential |-> ""]
    /\ returned' = NoCall
    /\ UNCHANGED <<now, api_keys, notApiKeys>>

\* the row the query of verify_api_key finds: key and is_active, 0 for None
api_key_obj(api_key) ==
    LET found == {i \in 1..Len(api_keys) : api_keys[i].key = api_key /\ api_keys[i].is_active}
    IN IF found = {} THEN 0 ELSE CHOOSE i \in found : TRUE

\* get_api_key_user with verify_api_key: the row's last_used is written and
\* committed before the owner is looked up
get_api_key_user(api_key) ==
    LET i == api_key_obj(api_key) IN
    /\ call' = [fn |-> "get_api_key_user", user_id |-> 0, credential |-> api_key]
    /\ IF i = 0
       THEN /\ UNCHANGED api_keys
            /\ returned' = [status |-> 401, user_id |-> 0]
       ELSE /\ api_keys' = [api_keys EXCEPT ![i].last_used = now]
            /\ returned' = IF users[api_keys[i].user_id].is_active
                           THEN [status |-> 200, user_id |-> api_keys[i].user_id]
                           ELSE [status |-> 401, user_id |-> 0]
    /\ UNCHANGED <<now, users, notApiKeys>>

TickApiKeys ==
    /\ now + TickMinutes <= MaxTime
    /\ now' = now + TickMinutes
    /\ UNCHANGED <<users, api_keys, serviceVars, notApiKeys>>

NextApiKeys ==
    \/ \E u \in CallerIds, k \in KeyValues, e \in ExpiryArgs : create_user_api_key(u, k, e)
    \/ \E u \in CallerIds, id \in 1..(MaxApiKeys + 1) : delete_api_key(u, id)
    \/ \E i \in 1..MaxApiKeys : deactivate_api_key(i)
    \/ \E u \in CallerIds : deactivate_user(u)
    \/ \E k \in Credentials : get_api_key_user(k)
    \/ TickApiKeys

SpecApiKeys == InitApi /\ [][NextApiKeys]_vars

\* the step is a request authenticated with an API key
ApiKeyRequest == now' = now /\ call'.fn = "get_api_key_user"

\* the row may be used: active, not past its expires_at, owned by an active user
ApiKeyUsable(row) ==
    /\ row.is_active
    /\ row.expires_at = NoExpiry \/ now <= row.expires_at
    /\ users[row.user_id].is_active

(* C29: API-key authentication accepts a credential only if it equals the key
   of an ApiKey row that is active, not past its expires_at and owned by an
   active user; a deleted, deactivated or expired key is answered 401; and an
   accepted use changes nothing but that row's last_used. *)
C29_ApiKeyAcceptedOnlyIfUsable ==
    [][ ApiKeyRequest =>
          /\ returned'.status \in {200, 401}
          /\ returned'.status = 200 =>
                \E i \in 1..Len(api_keys) :
                    /\ api_keys[i].key = call'.credential
                    /\ ApiKeyUsable(api_keys[i])
                    /\ returned'.user_id = api_keys[i].user_id
                    /\ api_keys' = [api_keys EXCEPT ![i].last_used = now]
          /\ users' = users ]_vars


----------------------------------------------------------------------------
(* knowledge graph router: entity search and project analysis *)

SearchQueries == {"", "Log", "Admin", "sign"}
Descriptions == {"", "sign in"}

notGraph == <<now, users, sessions, blacklist, issued, authResp, held, tokenRes, store,
              resp, agentVars, inflight, llm_service, connections, api_keys>>

\* Cypher's CONTAINS on two strings
Contains(text, query) ==
    \E i \in 1..(Len(text) + 1) :
        /\ i + Len(query) - 1 <= Len(text)
        /\ SubSeq(text, i, i + Len(query) - 1) = query

\* KnowledgeGraphService.create_entity: a node with a fresh id
create_entity(name, entity_type, project_id, description) ==
    /\ Cardinality(graph.nodes) < MaxNodes
    /\ graph' = [graph EXCEPT !.nodes =
                    @ \cup {[id |-> Cardinality(graph.nodes) + 1, name |-> name,
                             type |-> entity_type, project_id |-> project_id,
                             description |-> description]}]
    /\ call' = [fn |-> "create_entity", user_id |-> 0, project_id |-> project_id,
                query |-> ""]
    /\ returned' = NoCall
    /\ UNCHANGED notGraph

\* KnowledgeGraphService.create_relationship: MATCH both nodes by id, CREATE
create_relationship(source_entity_id, target_entity_id, relationship_type) ==
    /\ Cardinality(graph.edges) < MaxEdges
    /\ \E n \in graph.nodes : n.id = source_entity_id
    /\ \E n \in graph.nodes : n.id = target_entity_id
    /\ graph' = [graph EXCEPT !.edges =
                    @ \cup {[id |-> Cardinality(graph.edges) + 1,
                             source_id |-> source_entity_id,
                             target_id |-> target_entity_id,
                             type |-> relationship_type]}]
    /\ call' = [fn |-> "create_relationship", user_id |-> 0, project_id |-> 0, query |-> ""]
    /\ returned' = NoCall
    /\ UNCHANGED notGraph

\* MATCH (e) WHERE e.project_id = $project_id
NodesOfProject(project_id) == {n \in graph.nodes : n.project_id = project_id}

\* KnowledgeGraphService.search_entities with the default limit of 20, which
\* the graphs considered here never reach
search_matches(query, project_id) ==
    {n \in NodesOfProject(project_id) :
        Contains(n.name, query) \/ Contains(n.description, query)}

\* GET /knowledge-graph/entities/search (Depends(get_current_active_user))
search_entities(user_id, query, project_id) ==
    LET entities == search_matches(query, project_id) IN
    /\ call' = [fn |-> "search_entities", user_id |-> user_id, project_id |-> project_id,
                query |-> query]
    /\ returned' = [status |-> 200, entities |-> entities, total |-> Cardinality(entities)]
    /\ UNCHANGED <<graph, notGraph>>

\* MATCH (e1)-[r]->(e2) WHERE both ends belong to the project
EdgesOfProject(project_id) ==
    {e \in graph.edges :
        /\ \E n \in NodesOfProject(project_id) : n.id = e.source_id
        /\ \E n \in NodesOfProject(project_id) : n.id = e.target_id}

\* GET /knowledge-graph/projects/{project_id}/analysis
analyze_project_structure(user_id, project_id) ==
    LET nodes == NodesOfProject(project_id)
        edges == EdgesOfProject(project_id)
    IN
    /\ call' = [fn |-> "analyze_project_structure", user_id |-> user_id,
                project_id |-> project_id, query |-> ""]
    /\ returned' = [status |-> 200,
                    project_id |-> project_id,
                    summary |-> [total_entities |-> Cardinality(nodes),
                                 total_relationships |-> Cardinality(edges)],
                    entity_distribution |->
                        {[type |-> t, count |-> Cardinality({n \in nodes : n.type = t})] :
                            t \in {n.type : n \in nodes}},
                    relationship_distribution |->
                        {[type |-> t, count |-> Cardinality({e \in edges : e.type = t})] :
                            t \in {e.type : e \in edges}}]
    /\ UNCHANGED <<graph, notGraph>>

NextGraphApi ==
    \/ \E name \in EntityNames, t \in BuildTypes, p \in DOMAIN ProjectOwner,
          d \in Descriptions : create_entity(name, t, p, d)
    \/ \E a \in 1..MaxNodes, b \in 1..MaxNodes : create_relationship(a, b, "DEPENDS_ON")
    \/ \E u \in CallerIds, q \in SearchQueries, p \in ProjectIds : search_entities(u, q, p)
    \/ \E u \in CallerIds, p \in ProjectIds : analyze_project_structure(u, p)

SpecGraphApi == InitApi /\ [][NextGraphApi]_vars

\* the caller of the last request does not own the project the request names
AsksForForeignProject ==
    /\ call.fn \in {"search_entities", "analyze_project_structure"}
    /\ call.project_id \in DOMAIN ProjectOwner
    /\ ProjectOwner[call.project_id] # call.user_id

(* C30: GET /knowledge-graph/entities/search and GET
   /knowledge-graph/projects/{id}/analysis give entities and statistics of a
   project only to its owner: a user who does not own project P obtains no
   entity and no count of P through them. *)
C30_GraphOfProjectOnlyForOwner ==
    AsksForForeignProject =>
        IF call.fn = "search_entities"
        THEN returned.entities = {} /\ returned.total = 0
        ELSE /\ returned.status # 200
                \/ /\ returned.summary.total_entities = 0
                   /\ returned.summary.total_relationships = 0
                   /\ returned.entity_distribution = {}
                   /\ returned.relationship_distribution = {}

====
